---- MODULE Spec2Model ----
(***************************************************************************)
(* CloudStream3D geometry pipeline: boundary detection (2D convex hull),   *)
(* density reduction (voxel centroids, z-gradient sampling), elevation     *)
(* inversion and the XYZ text export / parse pair.                         *)
(*                                                                         *)
(* Numbers.  A JavaScript number is modelled as a fixed-point integer that *)
(* counts hundredths: the value 1.0 is Unit, 0.05 is 5.  The JavaScript    *)
(* null of a colour channel is the sentinel Null, NaN the sentinel NaN.    *)
(* Array indices keep the source's 0-based values; a JavaScript Set is a   *)
(* sequence without repetition, in insertion order.                        *)
(***************************************************************************)
EXTENDS Integers, Sequences, FiniteSets, TLC

VARIABLES
    op,        \* name of the last operation that ran ("init" before any)
    points,    \* the input point list of the function under study
    mode,      \* second argument handed to identifyBoundaryPoints
    hull,      \* Set returned by identifyBoundaryPoints (insertion order)
    method,    \* reduction method
    pct,       \* targetPercentage
    bnd,       \* boundaryIndices argument (NullSet when absent)
    out,       \* list returned by the latest reducePointCloud call
    prev,      \* list returned by the call before it
    calls,     \* number of reducePointCloud calls made on this input
    inverted,  \* invertZValues(points)
    restored,  \* invertZValues(inverted)
    dec,       \* decimalPlaces argument of exportToXYZ (NoArg when omitted)
    text,      \* characters returned by exportToXYZ
    parsed,    \* list returned by parseXYZ(text)
    fileLines, \* the lines of the input file, without their line ends
    drawn,     \* Math.random() outcomes of the zGradientDownsampling call
    originalPoints,   \* app.js: the parsed cloud of the loaded file
    currentPoints,    \* app.js: the cloud on display
    boundaryIndices,  \* app.js: detected boundary set (NullSet for null)
    reductionMethod,  \* app.js: 'none', 'voxel' or 'zgradient'
    reductionPercent, \* app.js: value of the percentage slider
    invertZ,          \* app.js: state of the invert check box
    cloud,            \* app.js: points of the THREE.Points on display
    boundaryCloud,    \* app.js: points of the red overlay (<<>> for null)
    timers,           \* callbacks handed to setTimeout, not yet run
    reader,           \* files whose FileReader load has not completed
    chunkSizeMB,      \* options.chunkSizeMB of chunkFileNode, in bytes
    written,          \* files written by chunkFileNode, in write order
    metadata,         \* manifest returned by chunkFileNode
    promises,         \* preload.cjs: the promises chunkFile has returned
    doneListeners,    \* preload.cjs: once-listeners on 'chunk:done'
    errorListeners,   \* preload.cjs: once-listeners on 'chunk:error'
    running,          \* main process: chunk:start handlers not yet finished
    channel,          \* messages sent to the renderer, not yet delivered
    lodPoints,        \* LOD renderer: the three levels of the loaded cloud
    currentLODPoints, \* LOD renderer: the level on display
    lodCloud,         \* LOD renderer: its variable cloud (Null for null)
    surface,          \* LOD renderer: the smooth surface mesh (Null for null)
    scene,            \* LOD renderer: the objects in the THREE.Scene
    meshes,           \* LOD renderer: number of meshes generateSurface made
    lodReader         \* LOD renderer: files whose load has not completed

rendererVars == <<originalPoints, currentPoints, boundaryIndices,
                  reductionMethod, reductionPercent, invertZ,
                  cloud, boundaryCloud, timers, reader>>

chunkerVars == <<chunkSizeMB, written, metadata>>

ipcVars == <<promises, doneListeners, errorListeners, running, channel>>

lodVars == <<lodPoints, currentLODPoints, lodCloud, surface, scene, meshes, lodReader>>

vars == <<op, points, mode, hull, method, pct, bnd, out, prev, calls,
          inverted, restored, dec, text, parsed, fileLines, drawn,
          rendererVars, chunkerVars, ipcVars, lodVars>>

(***************************************************************************)
(* Bounds of the model.                                                    *)
(***************************************************************************)
Grid == 2        \* hull inputs lie on the (x,y) grid 0..Grid x 0..Grid
MaxHullN == 4    \* longest enumerated point list handed to the detector
MaxN == 3        \* longest point list handed to the reducer
MaxB == 2        \* largest boundary-index set handed to the reducer
MaxRnd == 2      \* number of distinct outcomes of one Math.random() draw
MaxCalls == 2    \* reducePointCloud calls made on one input
MaxInvN == 3     \* longest point list handed to invertZValues
MaxExpN == 2     \* longest point list handed to exportToXYZ
MaxLines == 3    \* most lines of an input file
MaxTimers == 2   \* most setTimeout callbacks pending at once
MaxReads == 1    \* most FileReader loads pending at once
MaxGradN == 3    \* longest point list of a recorded zGradientDownsampling call
MaxFrameN == 3   \* longest point list handed to a core function in sequence
MaxRequests == 3 \* electronAPI.chunkFile calls made
MaxSurfaces == 3 \* meshes generateSurface returns in one run

(***************************************************************************)
(* Number model.                                                           *)
(***************************************************************************)
Unit == 10 * 10
Null == -1
NaN == -999999999
NoArg == -2
NullSet == <<-1>>
NoDraws == [neighbor |-> <<>>, random |-> <<>>]
NoMetadata == [totalPoints |-> 0, totalChunks |-> 0, totalBytes |-> 0, chunks |-> <<>>]

(* the module-level state of app.js before any event *)
RendererStart ==
    /\ originalPoints = <<>> /\ currentPoints = <<>>
    /\ boundaryIndices = NullSet
    /\ reductionMethod = "none" /\ reductionPercent = 100
    /\ invertZ = FALSE
    /\ cloud = <<>> /\ boundaryCloud = <<>>
    /\ timers = <<>> /\ reader = <<>>

(* no chunkFileNode call made *)
ChunkerIdle == chunkSizeMB = NoArg /\ written = <<>> /\ metadata = NoMetadata

(* no electronAPI.chunkFile call made *)
IpcIdle ==
    /\ promises = <<>> /\ doneListeners = <<>> /\ errorListeners = <<>>
    /\ running = {} /\ channel = <<>>

(* part_009 after init(), before its first animation frame: lodPoints =    *)
(* [], currentLODPoints = [], cloud = null, surface = null, and the two    *)
(* lights in the scene (not tracked)                                       *)
LodStart ==
    /\ lodPoints = <<>> /\ currentLODPoints = <<>>
    /\ lodCloud = Null /\ surface = Null
    /\ scene = {} /\ meshes = 0 /\ lodReader = <<>>

Abs(a) == IF a < 0 THEN -a ELSE a
Max2(a, b) == IF a >= b THEN a ELSE b
Min2(a, b) == IF a <= b THEN a ELSE b

Point(px, py, pz, pr, pg, pb) ==
    [x |-> px, y |-> py, z |-> pz, r |-> pr, g |-> pg, b |-> pb]

Front(s) == SubSeq(s, 1, Len(s) - 1)
Reverse(s) == [i \in 1..Len(s) |-> s[Len(s) + 1 - i]]
Range(s) == {s[i] : i \in 1..Len(s)}
SeqsUpTo(S, n) == UNION {[1..k -> S] : k \in 0..n}

(* the array itself, repeated values kept *)
NewSetKeepRepeats(arr) == arr

(* new Set(array): first occurrence of every value, in array order *)
RECURSIVE NewSet(_)
NewSet(arr) ==
    IF arr = <<>> THEN <<>>
    ELSE LET rest == NewSet(Front(arr))
             e == arr[Len(arr)]
         IN IF e \in Range(rest) THEN rest ELSE Append(rest, e)

(***************************************************************************)
(* Boundary detector: pointCloudReducer.js, identifyBoundaryPoints and     *)
(* convexHull2D (Andrew's monotone chain).                                 *)
(***************************************************************************)
crossWrongOrigin(o, a, b) == (a.x - o.x) * (b.y - o.y) - (a.y - o.y) * (b.x - a.x)

cross(o, a, b) == (a.x - o.x) * (b.y - o.y) - (a.y - o.y) * (b.x - o.x)

(* the comparator of the sort in convexHull2D *)
compareXY(a, b) == IF a.x # b.x THEN a.x - b.x ELSE a.y - b.y

(* Array.prototype.sort is stable: equal elements keep their order *)
RECURSIVE InsertXY(_, _)
InsertXY(e, s) ==
    IF s = <<>> THEN <<e>>
    ELSE IF compareXY(s[Len(s)], e) <= 0 THEN Append(s, e)
    ELSE Append(InsertXY(e, Front(s)), s[Len(s)])

RECURSIVE sortXY(_)
sortXY(s) == IF s = <<>> THEN <<>> ELSE InsertXY(s[Len(s)], sortXY(Front(s)))

(* the while loop that pops the chain before a candidate is pushed; the    *)
(* mutant keeps collinear candidates                                       *)
RECURSIVE popChainKeepCollinear(_, _)
popChainKeepCollinear(chain, p) ==
    IF Len(chain) >= 2 /\ cross(chain[Len(chain) - 1], chain[Len(chain)], p) < 0
    THEN popChainKeepCollinear(Front(chain), p)
    ELSE chain

RECURSIVE popChain(_, _)
popChain(chain, p) ==
    IF Len(chain) >= 2 /\ cross(chain[Len(chain) - 1], chain[Len(chain)], p) <= 0
    THEN popChain(Front(chain), p)
    ELSE chain

(* one for loop of convexHull2D over the points in the order given *)
RECURSIVE buildChain(_, _, _)
buildChain(order, i, chain) ==
    IF i > Len(order) THEN chain
    ELSE buildChain(order, i + 1, Append(popChain(chain, order[i]), order[i]))

convexHull2DLowerOnly(pts) ==
    IF Len(pts) < 3 THEN pts
    ELSE Front(buildChain(sortXY(pts), 1, <<>>))

convexHull2D(pts) ==
    IF Len(pts) < 3 THEN pts
    ELSE LET sorted == sortXY(pts)
             lower == buildChain(sorted, 1, <<>>)
             upper == buildChain(Reverse(sorted), 1, <<>>)
         IN Front(lower) \o Front(upper)

points2DOneBased(pts) ==
    [i \in 1..Len(pts) |-> [x |-> pts[i].x, y |-> pts[i].y, index |-> i]]

points2D(pts) ==
    [i \in 1..Len(pts) |-> [x |-> pts[i].x, y |-> pts[i].y, index |-> i - 1]]

identifyBoundaryPointsNoDegenerate(pts) ==
    IF Len(pts) < 3 THEN <<>>
    ELSE LET hull2D == convexHull2D(points2D(pts))
         IN NewSet([i \in 1..Len(hull2D) |-> hull2D[i].index])

identifyBoundaryPoints(pts) ==
    IF Len(pts) = 0 THEN <<>>
    ELSE IF Len(pts) < 3 THEN [i \in 1..Len(pts) |-> i - 1]
    ELSE LET hull2D == convexHull2D(points2D(pts))
         IN NewSet([i \in 1..Len(hull2D) |-> hull2D[i].index])

(***************************************************************************)
(* Inputs of the detector.                                                 *)
(***************************************************************************)
HullPts == {Point(i, j, 0, Null, Null, Null) : i \in 0..Grid, j \in 0..Grid}

(* the cube fixture of samples/boundary_test.xyz: 8 corners of a cube of   *)
(* side 5 over 4 horizontal corners, and 10 interior points                *)
CubeFixture ==
    << Point(0, 0, 0, Null, Null, Null),
       Point(5 * Unit, 0, 0, Null, Null, Null),
       Point(5 * Unit, 5 * Unit, 0, Null, Null, Null),
       Point(0, 5 * Unit, 0, Null, Null, Null),
       Point(0, 0, 5 * Unit, Null, Null, Null),
       Point(5 * Unit, 0, 5 * Unit, Null, Null, Null),
       Point(5 * Unit, 5 * Unit, 5 * Unit, Null, Null, Null),
       Point(0, 5 * Unit, 5 * Unit, Null, Null, Null),
       Point(250, 250, 250, Null, Null, Null),
       Point(100, 100, 100, Null, Null, Null),
       Point(400, 100, 100, Null, Null, Null),
       Point(400, 400, 100, Null, Null, Null),
       Point(100, 400, 100, Null, Null, Null),
       Point(100, 100, 400, Null, Null, Null),
       Point(400, 100, 400, Null, Null, Null),
       Point(400, 400, 400, Null, Null, Null),
       Point(100, 400, 400, Null, Null, Null),
       Point(250, 250, 100, Null, Null, Null) >>

(* the 8 corners of the unit cube and its centre (0.5, 0.5, 0.5) *)
UnitCubeCentre ==
    << Point(0, 0, 0, Null, Null, Null),
       Point(Unit, 0, 0, Null, Null, Null),
       Point(0, Unit, 0, Null, Null, Null),
       Point(Unit, Unit, 0, Null, Null, Null),
       Point(0, 0, Unit, Null, Null, Null),
       Point(Unit, 0, Unit, Null, Null, Null),
       Point(0, Unit, Unit, Null, Null, Null),
       Point(Unit, Unit, Unit, Null, Null, Null),
       Point(50, 50, 50, Null, Null, Null) >>

HullClouds == SeqsUpTo(HullPts, MaxHullN) \cup {CubeFixture, UnitCubeCentre}

InitHull ==
    /\ op = "init"
    /\ points \in HullClouds
    /\ mode \in {"2d", "3d"}
    /\ hull = <<>>
    /\ method = "voxel" /\ pct = 100 /\ bnd = NullSet
    /\ out = <<>> /\ prev = <<>> /\ calls = 0
    /\ inverted = <<>> /\ restored = <<>>
    /\ dec = NoArg /\ text = <<>> /\ parsed = <<>>
    /\ fileLines = <<>> /\ drawn = NoDraws
    /\ RendererStart /\ ChunkerIdle /\ IpcIdle /\ LodStart

(* identifyBoundaryPoints(points, mode): the function declares one         *)
(* parameter, so JavaScript discards the second argument                   *)
Identify ==
    /\ op = "init"
    /\ hull' = identifyBoundaryPoints(points)
    /\ op' = "identify"
    /\ UNCHANGED <<points, mode, method, pct, bnd, out, prev, calls,
                   inverted, restored, dec, text, parsed>>
    /\ UNCHANGED <<fileLines, drawn, rendererVars, chunkerVars, ipcVars, lodVars>>

NextHull == Identify

SpecHull == InitHull /\ [][NextHull]_vars

(***************************************************************************)
(* Density reducer: pointCloudReducer.js, voxelDownsampling,               *)
(* zGradientDownsampling and reducePointCloud.                             *)
(***************************************************************************)
RECURSIVE SumSeq(_)
SumSeq(s) == IF s = <<>> THEN 0 ELSE SumSeq(Front(s)) + s[Len(s)]

MinSeq(s) == CHOOSE m \in Range(s) : \A e \in Range(s) : m <= e
MaxSeq(s) == CHOOSE m \in Range(s) : \A e \in Range(s) : m >= e

(* a / b rounded to the nearest representable (hundredths) number *)
RoundDiv(a, b) == (2 * a + b) \div (2 * b)

(* Math.round(a / b) for a in hundredths: the nearest whole number *)
MathRoundDiv(a, b) == Unit * ((2 * a + b * Unit) \div (2 * b * Unit))

(* if (!boundaryIndices) boundaryIndices = new Set() *)
orEmptySet(boundarySet) ==
    IF boundarySet = NullSet THEN <<>> ELSE boundarySet

(* Array.from(boundarySet).map(idx => points[idx]) *)
boundaryPointsOf(pts, B) == [k \in 1..Len(B) |-> pts[B[k] + 1]]

(* indices visited by points.forEach that are not in boundarySet *)
RECURSIVE interiorIndicesOf(_, _)
interiorIndicesOf(n, B) ==
    IF n = 0 THEN <<>>
    ELSE IF (n - 1) \in Range(B) THEN interiorIndicesOf(n - 1, B)
    ELSE Append(interiorIndicesOf(n - 1, B), n - 1)

(* Math.max(1, Math.ceil(points.length * targetPercentage / 100)) *)
totalTargetOfCeil(n, p) == Max2(1, (n * p + 99) \div 100)

(* Math.max(1, Math.floor(points.length * targetPercentage / 100)) *)
totalTargetOf(n, p) == Max2(1, (n * p) \div 100)

(* Math.max(1, totalTarget) *)
interiorTargetOfTotal(n, p, nb) == Max2(1, totalTargetOf(n, p))

(* Math.max(1, totalTarget - boundaryPoints.length) *)
interiorTargetOf(n, p, nb) == Max2(1, totalTargetOf(n, p) - nb)

(* Math.max(Math.pow(100.0 / Math.max(targetPercentage, 1), 1.5) - 0.98,   *)
(* 0.001) in hundredths, for targetPercentage 1..100                       *)
voxelFactorTable ==
    << 99902, 35257, 19147, 12402, 8846, 6706, 5301, 4321, 3606, 3064,
       2643, 2308, 2035, 1811, 1623, 1464, 1329, 1211, 1109, 1020,
       941, 871, 809, 753, 702, 656, 615, 577, 542, 511,
       481, 454, 430, 406, 385, 365, 346, 329, 313, 297,
       283, 269, 257, 245, 233, 223, 212, 203, 194, 185,
       177, 169, 161, 154, 147, 141, 134, 128, 123, 117,
       112, 107, 102, 97, 93, 89, 84, 80, 76, 73,
       69, 66, 62, 59, 56, 53, 50, 47, 44, 42,
       39, 37, 34, 32, 30, 27, 25, 23, 21, 19,
       17, 15, 14, 12, 10, 8, 7, 5, 4, 2 >>

voxelFactor(p) == voxelFactorTable[Max2(p, 1)]

(* k * voxelSize <= d, where voxelSize = cbrt(volume / n) * factor / 100;  *)
(* both sides are cubed and the quotient taken first to stay in range      *)
fitsVoxels(k, d, volume, n, factor) ==
    /\ factor <= 1290
    /\ factor * factor * factor <= (d * d * d * n * 1000000) \div (k * k * k * volume)

(* Math.floor(d / voxelSize) *)
RECURSIVE voxelIndexFrom(_, _, _, _, _)
voxelIndexFrom(k, d, volume, n, factor) ==
    IF fitsVoxels(k + 1, d, volume, n, factor)
    THEN voxelIndexFrom(k + 1, d, volume, n, factor)
    ELSE k

voxelIndex(d, volume, n, factor) == voxelIndexFrom(0, d, volume, n, factor)

(* sum += v for a colour channel: null counts as 0, NaN makes the sum NaN *)
channelSum(vals) ==
    IF NaN \in Range(vals) THEN NaN
    ELSE SumSeq([k \in 1..Len(vals) |-> IF vals[k] = Null THEN 0 ELSE vals[k]])

(* Math.round(sum / count) of a colour channel *)
channelMean(vals, count) ==
    IF channelSum(vals) = NaN THEN NaN ELSE MathRoundDiv(channelSum(vals), count)

(* the centroid pushed for one voxel *)
centroidAnyColor(voxelPoints) ==
    LET count == Len(voxelPoints)
        colored == SelectSeq(voxelPoints, LAMBDA q : q.r # Null)
        hasColor == colored # <<>>
        sumOf(f(_), pp) == SumSeq([k \in 1..Len(pp) |-> f(pp[k])])
        fx(q) == q.x
        fy(q) == q.y
        fz(q) == q.z
    IN Point(RoundDiv(sumOf(fx, voxelPoints), count),
             RoundDiv(sumOf(fy, voxelPoints), count),
             RoundDiv(sumOf(fz, voxelPoints), count),
             IF hasColor THEN channelMean([k \in 1..Len(colored) |-> colored[k].r], count) ELSE Null,
             IF hasColor THEN channelMean([k \in 1..Len(colored) |-> colored[k].g], count) ELSE Null,
             IF hasColor THEN channelMean([k \in 1..Len(colored) |-> colored[k].b], count) ELSE Null)

(* voxelMap grouping and one centroid per key, in Map insertion order *)
voxelCentroids(interiorPoints, n, p, minX, minY, minZ, volume) ==
    LET factor == voxelFactor(p)
        key(q) == << voxelIndex(q.x - minX, volume, n, factor),
                     voxelIndex(q.y - minY, volume, n, factor),
                     voxelIndex(q.z - minZ, volume, n, factor) >>
        keys == [k \in 1..Len(interiorPoints) |-> key(interiorPoints[k])]
        order == NewSet(keys)
        members(v) == LET at == SelectSeq([k \in 1..Len(keys) |-> k],
                                          LAMBDA k : keys[k] = v)
                      IN [k \in 1..Len(at) |-> interiorPoints[at[k]]]
    IN [k \in 1..Len(order) |-> centroidAnyColor(members(order[k]))]

(* the third early return of both methods *)
boundaryMeetsTargetStrict(nb, totalTarget) == nb > totalTarget

boundaryMeetsTarget(nb, totalTarget) == nb >= totalTarget

(* voxelDownsampling after its first return *)
voxelBelow100(pts, p, boundarySet) ==
    IF Len(pts) = 0 THEN <<>>
    ELSE
    LET B == orEmptySet(boundarySet)
        boundaryPoints == boundaryPointsOf(pts, B)
        interiorIndices == interiorIndicesOf(Len(pts), B)
        interiorPoints == [k \in 1..Len(interiorIndices) |-> pts[interiorIndices[k] + 1]]
        n == Len(pts)
    IN IF Len(interiorPoints) = 0 THEN pts
       ELSE IF boundaryMeetsTarget(Len(boundaryPoints), totalTargetOf(n, p))
            THEN boundaryPoints
       ELSE
       LET targetCount == interiorTargetOf(n, p, Len(boundaryPoints))
           xs == [k \in 1..Len(interiorPoints) |-> interiorPoints[k].x]
           ys == [k \in 1..Len(interiorPoints) |-> interiorPoints[k].y]
           zs == [k \in 1..Len(interiorPoints) |-> interiorPoints[k].z]
           sizeX == MaxSeq(xs) - MinSeq(xs)
           sizeY == MaxSeq(ys) - MinSeq(ys)
           sizeZ == MaxSeq(zs) - MinSeq(zs)
           volume == sizeX * sizeY * sizeZ
       IN IF volume = 0 THEN SubSeq(pts, 1, Min2(targetCount, n))
          ELSE boundaryPoints \o
               voxelCentroids(interiorPoints, n, p, MinSeq(xs), MinSeq(ys), MinSeq(zs), volume)

voxelDownsamplingAbove100(pts, p, boundarySet) ==
    IF p > 100 THEN pts ELSE voxelBelow100(pts, p, boundarySet)

voxelDownsampling(pts, p, boundarySet) ==
    IF p >= 100 THEN pts ELSE voxelBelow100(pts, p, boundarySet)

(* the gradient dz / sqrt(d2) of a point toward one sampled neighbour,     *)
(* kept as the pair (dz, d2); 0 when the neighbour does not qualify        *)
zeroGradient == [dz |-> 0, d2 |-> 1]

gradientToward(pts, idx, neighborIdx) ==
    IF neighborIdx = idx THEN zeroGradient
    ELSE LET q == pts[idx + 1]
             neighbor == pts[neighborIdx + 1]
             dx == q.x - neighbor.x
             dy == q.y - neighbor.y
             dz == Abs(q.z - neighbor.z)
             d2 == dx * dx + dy * dy
         IN IF d2 > 0 /\ d2 < (10 * Unit) * (10 * Unit) /\ dz > 0
            THEN [dz |-> dz, d2 |-> d2]
            ELSE zeroGradient

(* sign of b.gradient - a.gradient *)
gradientDiff(a, b) ==
    LET lhs == b.gradient.dz * b.gradient.dz * a.gradient.d2
        rhs == a.gradient.dz * a.gradient.dz * b.gradient.d2
    IN IF lhs > rhs THEN 1 ELSE IF lhs < rhs THEN -1 ELSE 0

(* Math.abs(gradientDiff) < 0.001.  With ga, gb the two gradients,         *)
(* |ga - gb| = |ga^2 - gb^2| / (ga + gb) and ga + gb <= 2 + ga^2 + gb^2,    *)
(* so the test below is implied by it; on the inputs of this model the     *)
(* two coincide (distinct gradients differ by far more than 0.001)         *)
similarGradient(a, b) ==
    LET A == a.gradient.dz * a.gradient.dz
        C == b.gradient.dz * b.gradient.dz
        da == a.gradient.d2
        db == b.gradient.d2
    IN 1000 * Abs(A * db - C * da) < 2 * da * db + A * db + C * da

(* the comparator with gradientDiff = a.gradient - b.gradient *)
compareGradientAscending(a, b) ==
    IF similarGradient(a, b) THEN b.random - a.random ELSE gradientDiff(b, a)

(* the comparator of pointsWithGradient.sort *)
compareGradient(a, b) ==
    IF similarGradient(a, b) THEN b.random - a.random ELSE gradientDiff(a, b)

RECURSIVE InsertGradient(_, _)
InsertGradient(e, s) ==
    IF s = <<>> THEN <<e>>
    ELSE IF compareGradient(s[Len(s)], e) <= 0 THEN Append(s, e)
    ELSE Append(InsertGradient(e, Front(s)), s[Len(s)])

RECURSIVE sortGradient(_)
sortGradient(s) ==
    IF s = <<>> THEN <<>> ELSE InsertGradient(s[Len(s)], sortGradient(Front(s)))

(* interiorPoints.map(...): draws.neighbor[k] is the sampled neighbour     *)
(* that sets maxZDiff for the k-th interior point (the point itself when   *)
(* no sample qualifies); draws.random[k] is the tie-break value            *)
(* Math.random() returned for it                                           *)
pointsWithGradientOf(pts, interiorIndices, draws) ==
    [k \in 1..Len(interiorIndices) |->
        [point |-> pts[interiorIndices[k] + 1],
         gradient |-> gradientToward(pts, interiorIndices[k], draws.neighbor[k]),
         random |-> draws.random[k]]]

zGradientBelow100(pts, p, boundarySet, draws) ==
    IF Len(pts) = 0 THEN <<>>
    ELSE
    LET B == orEmptySet(boundarySet)
        boundaryPoints == boundaryPointsOf(pts, B)
        interiorIndices == interiorIndicesOf(Len(pts), B)
        n == Len(pts)
    IN IF Len(interiorIndices) = 0 THEN pts
       ELSE IF boundaryMeetsTarget(Len(boundaryPoints), totalTargetOf(n, p))
            THEN boundaryPoints
       ELSE
       LET interiorTarget == interiorTargetOf(n, p, Len(boundaryPoints))
           pointsWithGradient == pointsWithGradientOf(pts, interiorIndices, draws)
           sorted == sortGradient(pointsWithGradient)
           kept == Min2(interiorTarget, Len(sorted))
       IN boundaryPoints \o [k \in 1..kept |-> sorted[k].point]

zGradientDownsampling(pts, p, boundarySet, draws) ==
    IF p >= 100 THEN pts ELSE zGradientBelow100(pts, p, boundarySet, draws)

(* reducePointCloud with default: return [] *)
reducePointCloudEmptyDefault(pts, m, p, boundarySet, draws) ==
    CASE m = "voxel" -> voxelDownsampling(pts, p, boundarySet)
      [] m = "zgradient" -> zGradientDownsampling(pts, p, boundarySet, draws)
      [] OTHER -> <<>>

reducePointCloud(pts, m, p, boundarySet, draws) ==
    CASE m = "voxel" -> voxelDownsampling(pts, p, boundarySet)
      [] m = "zgradient" -> zGradientDownsampling(pts, p, boundarySet, draws)
      [] OTHER -> pts

(***************************************************************************)
(* Inputs of the reducer, in hundredths.  The three positions give a box   *)
(* with volume (first two), flat boxes (the other pairs, repeats) and      *)
(* different z-gradients; one point has no colour.                         *)
(***************************************************************************)
ReducePts ==
    { Point(0, 0, 0, Null, Null, Null),
      Point(1, 1, 1, 255 * Unit, 0, 0),
      Point(2, 1, 0, 100 * Unit, 50 * Unit, 0) }

Percentages == {0, 50, 90, 100, 120}

Methods == {"voxel", "zgradient"}

(* sequences of distinct valid indices, at most MaxB long *)
IndexSets(n) ==
    {b \in SeqsUpTo(0..(n - 1), MaxB) :
        \A j, k \in 1..Len(b) : j # k => b[j] # b[k]}

(* outcomes of the Math.random() calls of one reducePointCloud call: only  *)
(* zGradientDownsampling draws, once per interior point for the neighbour  *)
(* that decides maxZDiff (of equivalent neighbours the first) and once     *)
(* for the tie-break                                                       *)
firstNeighbors(pts, i) ==
    {j \in 0..(Len(pts) - 1) :
        \A k \in 0..(j - 1) : gradientToward(pts, i, k) # gradientToward(pts, i, j)}

RECURSIVE neighborChoices(_, _, _)
neighborChoices(pts, interiorIndices, k) ==
    IF k = 0 THEN {<<>>}
    ELSE {Append(t, j) : t \in neighborChoices(pts, interiorIndices, k - 1),
                         j \in firstNeighbors(pts, interiorIndices[k])}

Draws(pts, m, p, boundarySet) ==
    LET interiorIndices == interiorIndicesOf(Len(pts), orEmptySet(boundarySet))
    IN IF \/ m # "zgradient" \/ p >= 100 \/ Len(pts) = 0 \/ interiorIndices = <<>>
          \/ boundaryMeetsTarget(Len(orEmptySet(boundarySet)), totalTargetOf(Len(pts), p))
       THEN {NoDraws}
       ELSE { [neighbor |-> f, random |-> g] :
                f \in neighborChoices(pts, interiorIndices, Len(interiorIndices)),
                g \in [1..Len(interiorIndices) -> 0..(MaxRnd - 1)] }

InitReduce ==
    /\ op = "init"
    /\ points \in SeqsUpTo(ReducePts, MaxN)
    /\ method \in Methods
    /\ pct \in Percentages
    /\ bnd \in IndexSets(Len(points)) \cup {NullSet}
    /\ out = <<>> /\ prev = <<>> /\ calls = 0
    /\ mode = "2d" /\ hull = <<>>
    /\ inverted = <<>> /\ restored = <<>>
    /\ dec = NoArg /\ text = <<>> /\ parsed = <<>>
    /\ fileLines = <<>> /\ drawn = NoDraws
    /\ RendererStart /\ ChunkerIdle /\ IpcIdle /\ LodStart

Reduce ==
    /\ op \in {"init", "reduce"}
    /\ calls < MaxCalls
    /\ \E draws \in Draws(points, method, pct, bnd) :
          out' = reducePointCloud(points, method, pct, bnd, draws)
    /\ prev' = out
    /\ calls' = calls + 1
    /\ op' = "reduce"
    /\ UNCHANGED <<points, mode, hull, method, pct, bnd,
                   inverted, restored, dec, text, parsed>>
    /\ UNCHANGED <<fileLines, drawn, rendererVars, chunkerVars, ipcVars, lodVars>>

NextReduce == Reduce

SpecReduce == InitReduce /\ [][NextReduce]_vars

(***************************************************************************)
(* One call of reducePointCloud for any method name and any whole          *)
(* percentage, negative ones and ones above 100 included.                  *)
(***************************************************************************)
AnyMethods == {"none", "voxel", "zgradient"}

AnyPercentages == {-10, 0, 50, 100, 120}

InitReduceAny ==
    /\ op = "init"
    /\ points \in SeqsUpTo(ReducePts, MaxN)
    /\ method \in AnyMethods
    /\ pct \in AnyPercentages
    /\ bnd \in IndexSets(Len(points)) \cup {NullSet}
    /\ out = <<>> /\ prev = <<>> /\ calls = 0
    /\ mode = "2d" /\ hull = <<>>
    /\ inverted = <<>> /\ restored = <<>>
    /\ dec = NoArg /\ text = <<>> /\ parsed = <<>>
    /\ fileLines = <<>> /\ drawn = NoDraws
    /\ RendererStart /\ ChunkerIdle /\ IpcIdle /\ LodStart

ReduceAny ==
    /\ op = "init"
    /\ \E draws \in Draws(points, method, pct, bnd) :
          out' = reducePointCloud(points, method, pct, bnd, draws)
    /\ calls' = calls + 1
    /\ op' = "reduceAny"
    /\ UNCHANGED <<points, mode, hull, method, pct, bnd, prev,
                   inverted, restored, dec, text, parsed>>
    /\ UNCHANGED <<fileLines, drawn, rendererVars, chunkerVars, ipcVars, lodVars>>

NextReduceAny == ReduceAny

SpecReduceAny == InitReduceAny /\ [][NextReduceAny]_vars

(***************************************************************************)
(* One call of zGradientDownsampling with the outcomes of its              *)
(* Math.random() calls recorded.  The inputs, in hundredths: a low point,  *)
(* two raised points whose gradients toward it are 1/sqrt(98) and          *)
(* 1/sqrt(97) (less than 0.001 apart), and a raised point whose horizontal *)
(* distance to each of the others is 10 or more.                           *)
(***************************************************************************)
GradientPts ==
    { Point(0, 0, 0, Null, Null, Null),
      Point(7, 7, 1, 255 * Unit, 0, 0),
      Point(9, 4, 1, Null, Null, Null),
      Point(10 * Unit, 0, 1, 100 * Unit, 50 * Unit, 0) }

GradientPercents == {0, 50, 90}

InitGradient ==
    /\ op = "init"
    /\ points \in SeqsUpTo(GradientPts, MaxGradN)
    /\ method = "zgradient"
    /\ pct \in GradientPercents
    /\ bnd \in IndexSets(Len(points)) \cup {NullSet}
    /\ out = <<>> /\ prev = <<>> /\ calls = 0
    /\ mode = "2d" /\ hull = <<>>
    /\ inverted = <<>> /\ restored = <<>>
    /\ dec = NoArg /\ text = <<>> /\ parsed = <<>>
    /\ fileLines = <<>> /\ drawn = NoDraws
    /\ RendererStart /\ ChunkerIdle /\ IpcIdle /\ LodStart

Gradient ==
    /\ op = "init"
    /\ \E draws \in Draws(points, method, pct, bnd) :
          /\ out' = zGradientDownsampling(points, pct, bnd, draws)
          /\ drawn' = draws
    /\ calls' = calls + 1
    /\ op' = "gradient"
    /\ UNCHANGED <<points, mode, hull, method, pct, bnd, prev,
                   inverted, restored, dec, text, parsed>>
    /\ UNCHANGED <<fileLines, rendererVars, chunkerVars, ipcVars, lodVars>>

NextGradient == Gradient

SpecGradient == InitGradient /\ [][NextGradient]_vars

(***************************************************************************)
(* Elevation inversion: pointCloudReducer.js, invertZValues.               *)
(***************************************************************************)
invertZValuesShiftColor(pts) ==
    [k \in 1..Len(pts) |->
        Point(pts[k].x, pts[k].y, -pts[k].z, pts[k].g, pts[k].g, pts[k].b)]

invertZValues(pts) ==
    [k \in 1..Len(pts) |->
        Point(pts[k].x, pts[k].y, -pts[k].z, pts[k].r, pts[k].g, pts[k].b)]

InvertPts ==
    { Point(0, 0, 0, Null, Null, Null),
      Point(150, -25, 325, 255 * Unit, 0, 128 * Unit),
      Point(-1, 7, -1250, Null, Null, Null),
      Point(99, 99, 1, 0, 10 * Unit, 20 * Unit) }

InitInvert ==
    /\ op = "init"
    /\ points \in SeqsUpTo(InvertPts, MaxInvN)
    /\ inverted = <<>> /\ restored = <<>>
    /\ mode = "2d" /\ hull = <<>>
    /\ method = "voxel" /\ pct = 100 /\ bnd = NullSet
    /\ out = <<>> /\ prev = <<>> /\ calls = 0
    /\ dec = NoArg /\ text = <<>> /\ parsed = <<>>
    /\ fileLines = <<>> /\ drawn = NoDraws
    /\ RendererStart /\ ChunkerIdle /\ IpcIdle /\ LodStart

Invert ==
    /\ op = "init"
    /\ inverted' = invertZValues(points)
    /\ op' = "invert"
    /\ UNCHANGED <<points, mode, hull, method, pct, bnd, out, prev, calls,
                   restored, dec, text, parsed>>
    /\ UNCHANGED <<fileLines, drawn, rendererVars, chunkerVars, ipcVars, lodVars>>

InvertAgain ==
    /\ op = "invert"
    /\ restored' = invertZValues(inverted)
    /\ op' = "invertAgain"
    /\ UNCHANGED <<points, mode, hull, method, pct, bnd, out, prev, calls,
                   inverted, dec, text, parsed>>
    /\ UNCHANGED <<fileLines, drawn, rendererVars, chunkerVars, ipcVars, lodVars>>

NextInvert == Invert \/ InvertAgain

SpecInvert == InitInvert /\ [][NextInvert]_vars

(***************************************************************************)
(* Text export and parser: exportToXYZ with decimalPlaces, and parseXYZ    *)
(* of xyzParser.js.  A string is a sequence of one-character strings.      *)
(***************************************************************************)
DigitChars == <<"0", "1", "2", "3", "4", "5", "6", "7", "8", "9">>

RECURSIVE Pow10(_)
Pow10(e) == IF e = 0 THEN 1 ELSE 10 * Pow10(e - 1)

(* decimal digits of a natural number, most significant first *)
RECURSIVE Digits(_)
Digits(m) ==
    IF m < 10 THEN <<DigitChars[m + 1]>>
    ELSE Append(Digits(m \div 10), DigitChars[(m % 10) + 1])

RECURSIVE ZeroPad(_, _)
ZeroPad(ds, width) == IF Len(ds) >= width THEN ds ELSE ZeroPad(<<"0">> \o ds, width)

(* the integer n of Number.prototype.toFixed: n / 10^d nearest to a,       *)
(* the larger n on a tie; a is a magnitude in hundredths                   *)
toFixedScaledTruncated(a, d) ==
    IF d >= 2 THEN a * Pow10(d - 2) ELSE (a * Pow10(d)) \div Unit

toFixedScaled(a, d) ==
    IF d >= 2 THEN a * Pow10(d - 2)
    ELSE (2 * a * Pow10(d) + Unit) \div (2 * Unit)

(* v.toFixed(d) *)
toFixed(v, d) ==
    LET ds == ZeroPad(Digits(toFixedScaled(Abs(v), d)), d + 1)
        whole == SubSeq(ds, 1, Len(ds) - d)
        frac == SubSeq(ds, Len(ds) - d + 1, Len(ds))
    IN (IF v < 0 THEN <<"-">> ELSE <<>>) \o whole \o
       (IF d > 0 THEN <<".">> \o frac ELSE <<>>)

(* `${v}`: shortest decimal form of a number in hundredths *)
numberToString(v) ==
    LET a == Abs(v)
        whole == Digits(a \div Unit)
        cents == a % Unit
        frac == IF cents = 0 THEN <<>>
                ELSE IF cents % 10 = 0 THEN <<".", DigitChars[(cents \div 10) + 1]>>
                ELSE <<".", DigitChars[(cents \div 10) + 1], DigitChars[(cents % 10) + 1]>>
    IN (IF v < 0 THEN <<"-">> ELSE <<>>) \o whole \o frac

(* the text appended by one iteration of points.forEach *)
exportLine(q, decimalPlaces) ==
    LET x == toFixed(q.x, decimalPlaces)
        y == toFixed(q.y, decimalPlaces)
        z == toFixed(q.z, decimalPlaces)
    IN IF q.r # Null /\ q.g # Null /\ q.b # Null
       THEN x \o <<" ">> \o y \o <<" ">> \o z \o <<" ">> \o numberToString(q.r) \o <<" ">>
            \o numberToString(q.g) \o <<" ">> \o numberToString(q.b) \o <<"\n">>
       ELSE x \o <<" ">> \o y \o <<" ">> \o z \o <<"\n">>

RECURSIVE exportLines(_, _)
exportLines(pts, decimalPlaces) ==
    IF pts = <<>> THEN <<>>
    ELSE exportLines(Front(pts), decimalPlaces) \o exportLine(pts[Len(pts)], decimalPlaces)

(* exportToXYZ(points, decimalPlaces = 6) *)
exportToXYZ(pts, decimalPlaces) ==
    exportLines(pts, IF decimalPlaces = NoArg THEN 6 ELSE decimalPlaces)

(* split a string at the characters of seps, dropping empty pieces *)
RECURSIVE SplitAt(_, _, _, _)
SplitAt(str, seps, i, cur) ==
    IF i > Len(str)
    THEN (IF cur = <<>> THEN <<>> ELSE <<cur>>)
    ELSE IF str[i] \in seps
    THEN (IF cur = <<>> THEN <<>> ELSE <<cur>>) \o SplitAt(str, seps, i + 1, <<>>)
    ELSE SplitAt(str, seps, i + 1, Append(cur, str[i]))

WhiteSpace == {" ", "\t"}
LineBreaks == {"\n", "\r"}

DigitValue(c) == CHOOSE d \in 0..9 : DigitChars[d + 1] = c

RECURSIVE DigitsValue(_)
DigitsValue(ds) ==
    IF ds = <<>> THEN 0 ELSE 10 * DigitsValue(Front(ds)) + DigitValue(ds[Len(ds)])

IsDigits(ds) == \A i \in 1..Len(ds) : ds[i] \in Range(DigitChars)

(* Number(token) for a decimal literal, to the nearest hundredth; NaN for  *)
(* anything else                                                           *)
Number(token) ==
    LET signed == token # <<>> /\ token[1] \in {"-", "+"}
        body == IF signed THEN SubSeq(token, 2, Len(token)) ELSE token
        dots == {i \in 1..Len(body) : body[i] = "."}
        dot == IF dots = {} THEN Len(body) + 1 ELSE CHOOSE i \in dots : TRUE
        whole == SubSeq(body, 1, dot - 1)
        frac == SubSeq(body, dot + 1, Len(body))
        magnitude == DigitsValue(whole) * Unit
                     + RoundDiv(DigitsValue(frac) * Unit, Pow10(Len(frac)))
    IN IF Cardinality(dots) > 1 \/ ~IsDigits(whole) \/ ~IsDigits(frac)
          \/ (whole = <<>> /\ frac = <<>>)
       THEN NaN
       ELSE IF signed /\ token[1] = "-" THEN -magnitude ELSE magnitude

(* p[i] ?? null, i counted from 0 *)
fieldOrNullFalsy(p, i) ==
    IF Len(p) >= i + 1 /\ p[i + 1] # 0 /\ p[i + 1] # NaN THEN p[i + 1] ELSE Null

fieldOrNull(p, i) == IF Len(p) >= i + 1 THEN p[i + 1] ELSE Null

(* what one non-blank line adds to points: a list of 0 or 1 point *)
parseLineNoFiniteCheck(line) ==
    LET fields == SplitAt(line, WhiteSpace, 1, <<>>)
        p == [k \in 1..Len(fields) |-> Number(fields[k])]
    IN IF Len(p) >= 3
       THEN << Point(p[1], p[2], p[3],
                     fieldOrNull(p, 3), fieldOrNull(p, 4), fieldOrNull(p, 5)) >>
       ELSE <<>>

parseLine(line) ==
    LET fields == SplitAt(line, WhiteSpace, 1, <<>>)
        p == [k \in 1..Len(fields) |-> Number(fields[k])]
    IN IF Len(p) >= 3 /\ p[1] # NaN /\ p[2] # NaN /\ p[3] # NaN
       THEN << Point(p[1], p[2], p[3],
                     fieldOrNull(p, 3), fieldOrNull(p, 4), fieldOrNull(p, 5)) >>
       ELSE <<>>

RECURSIVE parseLines(_)
parseLines(lines) ==
    IF lines = <<>> THEN <<>>
    ELSE parseLines(Front(lines)) \o parseLine(lines[Len(lines)])

(* parseXYZ(text): the character loop cuts the text at every \n and \r     *)
(* and handles each piece whose trim() is not empty, the last one too      *)
parseXYZ(str) ==
    LET pieces == SplitAt(str, LineBreaks, 1, <<>>)
        nonBlank == SelectSeq(pieces, LAMBDA l : \E i \in 1..Len(l) : l[i] \notin WhiteSpace)
    IN parseLines(nonBlank)

(* inputs of the export: coordinates with two decimals, ties of the        *)
(* rounding, negative values, and a partially coloured point               *)
ExportPts ==
    { Point(0, 0, 0, Null, Null, Null),
      Point(50, -50, 250, 255 * Unit, 0, 128 * Unit),
      Point(-40, 995, 1005, 0, 0, 0),
      Point(12345, -12349, 95, Null, Null, Null),
      Point(149, 151, -5, 255 * Unit, Null, Null) }

DecimalPlaces == {0, 1, 2, 3, NoArg}

InitExport ==
    /\ op = "init"
    /\ points \in SeqsUpTo(ExportPts, MaxExpN)
    /\ dec \in DecimalPlaces
    /\ text = <<>> /\ parsed = <<>>
    /\ mode = "2d" /\ hull = <<>>
    /\ method = "voxel" /\ pct = 100 /\ bnd = NullSet
    /\ out = <<>> /\ prev = <<>> /\ calls = 0
    /\ inverted = <<>> /\ restored = <<>>
    /\ fileLines = <<>> /\ drawn = NoDraws
    /\ RendererStart /\ ChunkerIdle /\ IpcIdle /\ LodStart

Export ==
    /\ op = "init"
    /\ text' = exportToXYZ(points, dec)
    /\ op' = "export"
    /\ UNCHANGED <<points, mode, hull, method, pct, bnd, out, prev, calls,
                   inverted, restored, dec, parsed>>
    /\ UNCHANGED <<fileLines, drawn, rendererVars, chunkerVars, ipcVars, lodVars>>

Parse ==
    /\ op = "export"
    /\ parsed' = parseXYZ(text)
    /\ op' = "parse"
    /\ UNCHANGED <<points, mode, hull, method, pct, bnd, out, prev, calls,
                   inverted, restored, dec, text>>
    /\ UNCHANGED <<fileLines, drawn, rendererVars, chunkerVars, ipcVars, lodVars>>

NextExport == Export \/ Parse

SpecExport == InitExport /\ [][NextExport]_vars

(***************************************************************************)
(* Files handed to the parser and to the chunker: lines of text joined by  *)
(* one kind of line end, the last line with or without one.                *)
(***************************************************************************)
PlainLine == <<"0", " ", "0", " ", "0">>
ColorLine == <<" ", ".", "0", "1", "\t", "0", ".", "0", "1", " ", " ", ".", "0", "1", " ",
               "2", "5", "5", " ", "0", " ", "1", "2", "8", " ">>
CommentLine == <<"#", " ", "1", " ", "2", " ", "3">>
EmptyLine == <<>>
BlankLine == <<" ", "\t">>
ShortLine == <<"1", " ", "2">>
FourFieldLine == <<".", "0", "2", " ", ".", "0", "1", " ", "0", " ", "2", "5", "5">>
FiveFieldLine == <<"-", ".", "0", "1", " ", "-", ".", "0", "1", " ", ".", "0", "1", " ",
                   "0", " ", "1", "0">>
SuffixLine == <<"1", "x", " ", "2", " ", "3">>

FileLineSet ==
    { PlainLine, ColorLine, CommentLine, EmptyLine, BlankLine, ShortLine,
      FourFieldLine, FiveFieldLine, SuffixLine }

LineEnds == { <<"\n">>, <<"\r", "\n">>, <<"\r">> }

RECURSIVE JoinLines(_, _, _)
JoinLines(ls, eol, closed) ==
    IF ls = <<>> THEN <<>>
    ELSE JoinLines(Front(ls), eol, TRUE) \o ls[Len(ls)] \o (IF closed THEN eol ELSE <<>>)

InitParse ==
    /\ op = "init"
    /\ fileLines \in SeqsUpTo(FileLineSet, MaxLines)
    /\ \E eol \in LineEnds, closed \in BOOLEAN : text = JoinLines(fileLines, eol, closed)
    /\ parsed = <<>>
    /\ points = <<>> /\ mode = "2d" /\ hull = <<>>
    /\ method = "voxel" /\ pct = 100 /\ bnd = NullSet
    /\ out = <<>> /\ prev = <<>> /\ calls = 0
    /\ inverted = <<>> /\ restored = <<>>
    /\ dec = NoArg /\ drawn = NoDraws
    /\ RendererStart /\ ChunkerIdle /\ IpcIdle /\ LodStart

(* parseXYZ(text) on the content of a file *)
ParseFile ==
    /\ op = "init"
    /\ parsed' = parseXYZ(text)
    /\ op' = "parseFile"
    /\ UNCHANGED <<points, mode, hull, method, pct, bnd, out, prev, calls,
                   inverted, restored, dec, text, fileLines, drawn,
                   rendererVars, chunkerVars, ipcVars, lodVars>>

(* the reduction applied to the parsed cloud, as applyReductionAndInversion *)
(* of app.js does with the settings of the controls                         *)
ReduceParsed ==
    /\ op = "parseFile"
    /\ \E m \in Methods, p \in {50}, b \in {NullSet, <<0>>} :
          /\ (b # NullSet => Len(parsed) >= 1)
          /\ \E draws \in Draws(parsed, m, p, b) :
                out' = reducePointCloud(parsed, m, p, b, draws)
          /\ method' = m /\ pct' = p /\ bnd' = b
    /\ op' = "reduceParsed"
    /\ UNCHANGED <<points, mode, hull, prev, calls, inverted, restored, dec,
                   text, parsed, fileLines, drawn, rendererVars, chunkerVars, ipcVars, lodVars>>

(* invertZValues applied to the parsed cloud *)
InvertParsed ==
    /\ op = "parseFile"
    /\ inverted' = invertZValues(parsed)
    /\ op' = "invertParsed"
    /\ UNCHANGED <<points, mode, hull, method, pct, bnd, out, prev, calls,
                   restored, dec, text, parsed, fileLines, drawn,
                   rendererVars, chunkerVars, ipcVars, lodVars>>

NextParse == ParseFile \/ ReduceParsed \/ InvertParsed

SpecParse == InitParse /\ [][NextParse]_vars

(***************************************************************************)
(* Renderer: app.js.  Event handlers run to completion; the callbacks      *)
(* handed to setTimeout(..., 10) run later, in the order they were set.    *)
(***************************************************************************)
TriangleFile == JoinLines(<<PlainLine, ColorLine, FourFieldLine>>, <<"\n">>, TRUE)
CollinearFile == JoinLines(<<FiveFieldLine, PlainLine, ColorLine>>, <<"\r", "\n">>, FALSE)
CommentFile == JoinLines(<<CommentLine>>, <<"\n">>, TRUE)

(* reader.result of the FileReader started on a file *)
readAsText(file) ==
    CASE file = "triangle.xyz" -> TriangleFile
      [] file = "collinear.xyz" -> CollinearFile
      [] file = "comment.xyz" -> CommentFile

RendererFiles == {"triangle.xyz", "collinear.xyz", "comment.xyz"}

RendererMethods == {"none", "voxel", "zgradient"}

RendererPercents == {50, 100}

RemoveAt(s, i) == SubSeq(s, 1, i - 1) \o SubSeq(s, i + 1, Len(s))

(* applyReductionAndInversion() up to its setTimeout call *)
applyReductionAndInversion(orig, pending) ==
    IF Len(orig) = 0 THEN pending ELSE Append(pending, "apply")

(* buildBoundaryCloud(points, boundaryIndices): the points it displays *)
buildBoundaryCloud(pts, indices) ==
    IF indices = NullSet \/ Len(indices) = 0 THEN <<>>
    ELSE [k \in 1..Len(indices) |-> pts[indices[k] + 1]]

InitRenderer ==
    /\ op = "init"
    /\ RendererStart
    /\ points = <<>> /\ mode = "2d" /\ hull = <<>>
    /\ method = "voxel" /\ pct = 100 /\ bnd = NullSet
    /\ out = <<>> /\ prev = <<>> /\ calls = 0
    /\ inverted = <<>> /\ restored = <<>>
    /\ dec = NoArg /\ text = <<>> /\ parsed = <<>>
    /\ fileLines = <<>> /\ drawn = NoDraws
    /\ ChunkerIdle /\ IpcIdle /\ LodStart

(* loadXYZ(e): starts a FileReader on the chosen file *)
loadXYZ ==
    /\ Len(reader) < MaxReads
    /\ \E file \in RendererFiles : reader' = Append(reader, file)
    /\ UNCHANGED <<originalPoints, currentPoints, boundaryIndices, reductionMethod,
                   reductionPercent, invertZ, cloud, boundaryCloud, timers>>
    /\ UNCHANGED <<op, points, mode, hull, method, pct, bnd, out, prev, calls, inverted,
                   restored, dec, text, parsed, fileLines, drawn, chunkerVars, ipcVars, lodVars>>

(* reader.onload without the reset of boundaryIndices *)
readerOnloadKeepBoundary ==
    /\ Len(timers) < MaxTimers
    /\ \E i \in 1..Len(reader) :
          /\ originalPoints' = parseXYZ(readAsText(reader[i]))
          /\ reader' = RemoveAt(reader, i)
    /\ timers' = applyReductionAndInversion(originalPoints', timers)
    /\ UNCHANGED <<currentPoints, boundaryIndices, reductionMethod, reductionPercent,
                   invertZ, cloud, boundaryCloud>>
    /\ UNCHANGED <<op, points, mode, hull, method, pct, bnd, out, prev, calls, inverted,
                   restored, dec, text, parsed, fileLines, drawn, chunkerVars, ipcVars, lodVars>>

(* reader.onload of one pending load *)
readerOnload ==
    /\ Len(timers) < MaxTimers
    /\ \E i \in 1..Len(reader) :
          /\ originalPoints' = parseXYZ(readAsText(reader[i]))
          /\ reader' = RemoveAt(reader, i)
    /\ boundaryIndices' = NullSet
    /\ timers' = applyReductionAndInversion(originalPoints', timers)
    /\ UNCHANGED <<currentPoints, reductionMethod, reductionPercent, invertZ,
                   cloud, boundaryCloud>>
    /\ UNCHANGED <<op, points, mode, hull, method, pct, bnd, out, prev, calls, inverted,
                   restored, dec, text, parsed, fileLines, drawn, chunkerVars, ipcVars, lodVars>>

(* identifyBoundary(): click on the identify button *)
identifyBoundary ==
    /\ Len(timers) < MaxTimers
    /\ timers' = IF Len(originalPoints) = 0 THEN timers ELSE Append(timers, "identify")
    /\ UNCHANGED <<originalPoints, currentPoints, boundaryIndices, reductionMethod,
                   reductionPercent, invertZ, cloud, boundaryCloud, reader>>
    /\ UNCHANGED <<op, points, mode, hull, method, pct, bnd, out, prev, calls, inverted,
                   restored, dec, text, parsed, fileLines, drawn, chunkerVars, ipcVars, lodVars>>

(* the callback identifyBoundary handed to setTimeout *)
identifyBoundaryTimeout ==
    /\ timers # <<>> /\ Head(timers) = "identify"
    /\ timers' = Tail(timers)
    /\ boundaryIndices' = identifyBoundaryPoints(originalPoints)
    /\ boundaryCloud' = buildBoundaryCloud(originalPoints, boundaryIndices')
    /\ UNCHANGED <<originalPoints, currentPoints, reductionMethod,
                   reductionPercent, invertZ, cloud, reader>>
    /\ UNCHANGED <<op, points, mode, hull, method, pct, bnd, out, prev, calls, inverted,
                   restored, dec, text, parsed, fileLines, drawn, chunkerVars, ipcVars, lodVars>>

(* the callback applyReductionAndInversion handed to setTimeout *)
applyTimeout ==
    /\ timers # <<>> /\ Head(timers) = "apply"
    /\ timers' = Tail(timers)
    /\ \E draws \in Draws(originalPoints, reductionMethod, reductionPercent, boundaryIndices) :
          LET reduced == IF reductionMethod # "none"
                         THEN reducePointCloud(originalPoints, reductionMethod,
                                               reductionPercent, boundaryIndices, draws)
                         ELSE originalPoints
              processedPoints == IF invertZ THEN invertZValues(reduced) ELSE reduced
          IN /\ currentPoints' = processedPoints
             /\ cloud' = processedPoints
    /\ boundaryCloud' = buildBoundaryCloud(originalPoints, boundaryIndices)
    /\ UNCHANGED <<originalPoints, boundaryIndices, reductionMethod,
                   reductionPercent, invertZ, reader>>
    /\ UNCHANGED <<op, points, mode, hull, method, pct, bnd, out, prev, calls, inverted,
                   restored, dec, text, parsed, fileLines, drawn, chunkerVars, ipcVars, lodVars>>

(* change listener of the reductionMethod select *)
reductionMethodChange ==
    /\ Len(timers) < MaxTimers
    /\ \E value \in RendererMethods : reductionMethod' = value
    /\ timers' = applyReductionAndInversion(originalPoints, timers)
    /\ UNCHANGED <<originalPoints, currentPoints, boundaryIndices,
                   reductionPercent, invertZ, cloud, boundaryCloud, reader>>
    /\ UNCHANGED <<op, points, mode, hull, method, pct, bnd, out, prev, calls, inverted,
                   restored, dec, text, parsed, fileLines, drawn, chunkerVars, ipcVars, lodVars>>

(* input listener of the reductionPercent slider *)
reductionPercentInput ==
    /\ Len(timers) < MaxTimers
    /\ \E value \in RendererPercents : reductionPercent' = value
    /\ timers' = applyReductionAndInversion(originalPoints, timers)
    /\ UNCHANGED <<originalPoints, currentPoints, boundaryIndices,
                   reductionMethod, invertZ, cloud, boundaryCloud, reader>>
    /\ UNCHANGED <<op, points, mode, hull, method, pct, bnd, out, prev, calls, inverted,
                   restored, dec, text, parsed, fileLines, drawn, chunkerVars, ipcVars, lodVars>>

(* change listener of the invertZ check box *)
invertZChange ==
    /\ Len(timers) < MaxTimers
    /\ invertZ' = ~invertZ
    /\ timers' = applyReductionAndInversion(originalPoints, timers)
    /\ UNCHANGED <<originalPoints, currentPoints, boundaryIndices,
                   reductionMethod, reductionPercent, cloud, boundaryCloud, reader>>
    /\ UNCHANGED <<op, points, mode, hull, method, pct, bnd, out, prev, calls, inverted,
                   restored, dec, text, parsed, fileLines, drawn, chunkerVars, ipcVars, lodVars>>

NextRenderer ==
    \/ loadXYZ
    \/ readerOnload
    \/ identifyBoundary
    \/ identifyBoundaryTimeout
    \/ applyTimeout
    \/ reductionMethodChange
    \/ reductionPercentInput
    \/ invertZChange

SpecRenderer == InitRenderer /\ [][NextRenderer]_vars

(***************************************************************************)
(* Chunker: chunker-main, chunkFileNode, called as the chunk:start handler *)
(* and the chunker test call it, with { chunkSizeMB } as the only option.  *)
(* Sizes are counted in bytes; the texts are ASCII, one byte a character.  *)
(***************************************************************************)
MegaByte == 1024 * 1024

(* the lines readline yields: cut at \n, \r\n and \r, no line for the end  *)
(* of the text after a line end; \r is no line end in the mutant           *)
RECURSIVE readlineOnlyLF(_, _, _)
readlineOnlyLF(str, i, cur) ==
    IF i > Len(str) THEN (IF cur = <<>> THEN <<>> ELSE <<cur>>)
    ELSE IF str[i] = "\n" THEN <<cur>> \o readlineOnlyLF(str, i + 1, <<>>)
    ELSE readlineOnlyLF(str, i + 1, Append(cur, str[i]))

RECURSIVE readline(_, _, _)
readline(str, i, cur) ==
    IF i > Len(str) THEN (IF cur = <<>> THEN <<>> ELSE <<cur>>)
    ELSE IF str[i] = "\r" /\ i + 1 <= Len(str) /\ str[i + 1] = "\n"
    THEN <<cur>> \o readline(str, i + 2, <<>>)
    ELSE IF str[i] \in LineBreaks THEN <<cur>> \o readline(str, i + 1, <<>>)
    ELSE readline(str, i + 1, Append(cur, str[i]))

(* line.trim() *)
RECURSIVE trim(_)
trim(line) ==
    IF line = <<>> THEN <<>>
    ELSE IF line[1] \in WhiteSpace THEN trim(Tail(line))
    ELSE IF line[Len(line)] \in WhiteSpace THEN trim(Front(line))
    ELSE line

(* isNaN(parseFloat(token)): parseFloat reads the longest leading decimal  *)
(* literal, so the result is NaN only when no digit starts the number      *)
parseFloatIsNaN(token) ==
    LET signed == token # <<>> /\ token[1] \in {"-", "+"}
        body == IF signed THEN Tail(token) ELSE token
    IN ~ \/ (Len(body) >= 1 /\ body[1] \in Range(DigitChars))
         \/ (Len(body) >= 2 /\ body[1] = "." /\ body[2] \in Range(DigitChars))

(* the test of the read loop that lets a line into the current chunk *)
hasValidPoint(line) ==
    LET trimmed == trim(line)
        parts == SplitAt(trimmed, WhiteSpace, 1, <<>>)
    IN /\ Len(trimmed) # 0
       /\ trimmed[1] # "#"
       /\ Len(parts) >= 3
       /\ ~parseFloatIsNaN(parts[1])
       /\ ~parseFloatIsNaN(parts[2])
       /\ ~parseFloatIsNaN(parts[3])

(* options.chunkSizeMB || 100, times 1024 * 1024 *)
chunkSizeBytesOf(sizeMB) ==
    IF sizeMB = NoArg \/ sizeMB = 0 THEN 100 * MegaByte ELSE sizeMB

(* "{base}_part_{index}.xyz" with the index padded to 4 digits *)
chunkFilename(basename, currentChunkIndex) ==
    <<basename, "_part_">> \o ZeroPad(Digits(currentChunkIndex), 4) \o <<".xyz">>

(* currentChunkLines.join('\n') + '\n' *)
RECURSIVE chunkContent(_)
chunkContent(ls) ==
    IF ls = <<>> THEN <<>> ELSE chunkContent(Front(ls)) \o ls[Len(ls)] \o <<"\n">>

(* the accumulators of chunkFileNode before the first line *)
ChunkerStart ==
    [chunks |-> <<>>, files |-> <<>>, currentChunkIndex |-> 0,
     currentChunkLines |-> <<>>, currentChunkBytes |-> 0,
     currentChunkPoints |-> 0, totalPoints |-> 0]

(* writeChunk(); the mutant keeps the point counter of the chunk written *)
writeChunkKeepPoints(acc, basename) ==
    IF Len(acc.currentChunkLines) = 0 THEN acc
    ELSE LET filename == chunkFilename(basename, acc.currentChunkIndex)
         IN [acc EXCEPT
                !.files = Append(@, [filename |-> filename,
                                     content |-> chunkContent(acc.currentChunkLines)]),
                !.chunks = Append(@, [filename |-> filename,
                                      points |-> acc.currentChunkPoints,
                                      bytes |-> acc.currentChunkBytes]),
                !.currentChunkLines = <<>>,
                !.currentChunkBytes = 0,
                !.currentChunkIndex = @ + 1]

writeChunk(acc, basename) ==
    IF Len(acc.currentChunkLines) = 0 THEN acc
    ELSE LET filename == chunkFilename(basename, acc.currentChunkIndex)
         IN [acc EXCEPT
                !.files = Append(@, [filename |-> filename,
                                     content |-> chunkContent(acc.currentChunkLines)]),
                !.chunks = Append(@, [filename |-> filename,
                                      points |-> acc.currentChunkPoints,
                                      bytes |-> acc.currentChunkBytes]),
                !.currentChunkLines = <<>>,
                !.currentChunkBytes = 0,
                !.currentChunkPoints = 0,
                !.currentChunkIndex = @ + 1]

(* one iteration of the for await loop over the lines *)
chunkLine(acc, line, basename, chunkSizeBytes) ==
    IF ~hasValidPoint(line) THEN acc
    ELSE LET lineBytes == Len(line) + 1
             added == [acc EXCEPT
                          !.currentChunkLines = Append(@, line),
                          !.currentChunkBytes = @ + lineBytes,
                          !.currentChunkPoints = @ + 1,
                          !.totalPoints = @ + 1]
         IN IF added.currentChunkBytes >= chunkSizeBytes
            THEN writeChunk(added, basename)
            ELSE added

RECURSIVE chunkLines(_, _, _)
chunkLines(ls, basename, chunkSizeBytes) ==
    IF ls = <<>> THEN ChunkerStart
    ELSE chunkLine(chunkLines(Front(ls), basename, chunkSizeBytes),
                   ls[Len(ls)], basename, chunkSizeBytes)

(* chunkFileNode(inputPath, outDir, { chunkSizeMB }): the accumulators     *)
(* after the final writeChunk                                              *)
chunkFileNode(content, basename, sizeMB) ==
    writeChunk(chunkLines(readline(content, 1, <<>>), basename, chunkSizeBytesOf(sizeMB)),
               basename)

ChunkSizes == {NoArg, 1, 14, 30}

InitChunker ==
    /\ op = "init"
    /\ fileLines \in SeqsUpTo(FileLineSet, MaxLines)
    /\ \E eol \in LineEnds, closed \in BOOLEAN : text = JoinLines(fileLines, eol, closed)
    /\ chunkSizeMB \in ChunkSizes
    /\ written = <<>> /\ metadata = NoMetadata
    /\ parsed = <<>>
    /\ points = <<>> /\ mode = "2d" /\ hull = <<>>
    /\ method = "voxel" /\ pct = 100 /\ bnd = NullSet
    /\ out = <<>> /\ prev = <<>> /\ calls = 0
    /\ inverted = <<>> /\ restored = <<>>
    /\ dec = NoArg /\ drawn = NoDraws
    /\ RendererStart /\ IpcIdle /\ LodStart

(* a complete run of chunkFileNode on the file *)
ChunkFile ==
    /\ op = "init"
    /\ LET done == chunkFileNode(text, "cloud", chunkSizeMB)
       IN /\ written' = done.files
          /\ metadata' = [totalPoints |-> done.totalPoints,
                          totalChunks |-> Len(done.chunks),
                          totalBytes |-> Len(text),
                          chunks |-> done.chunks]
    /\ op' = "chunk"
    /\ UNCHANGED <<points, mode, hull, method, pct, bnd, out, prev, calls,
                   inverted, restored, dec, text, parsed, fileLines, drawn,
                   chunkSizeMB, rendererVars, ipcVars, lodVars>>

NextChunker == ChunkFile

SpecChunker == InitChunker /\ [][NextChunker]_vars

(***************************************************************************)
(* The arguments of the core functions after a call.  The statements of    *)
(* pointCloudReducer.js that write to an array, object or Set are sort,    *)
(* push and pop; their receivers are arrays the function created itself    *)
(* (the spread copy sorted in convexHull2D, lower, upper, interiorPoints,  *)
(* interiorIndices, the voxelMap lists, interiorResult,                    *)
(* pointsWithGradient).  The points array is read by length, index, map,   *)
(* forEach, slice and spread, the boundary Set by has and Array.from;      *)
(* boundaryIndices = new Set() rebinds the parameter when it is null.      *)
(* invertZValues maps every point to a new object literal, exportToXYZ     *)
(* appends to a string.                                                    *)
(***************************************************************************)
CoreFunctions ==
    {"identifyBoundaryPoints", "voxelDownsampling", "zGradientDownsampling",
     "reducePointCloud", "invertZValues", "exportToXYZ"}

(* points.map(p => { p.z = -p.z; return p }) *)
pointsAfterInvertInPlace(fn, pts) ==
    IF fn = "invertZValues" THEN invertZValues(pts) ELSE pts

(* the caller's points array after a call of fn *)
pointsAfter(fn, pts) == pts

(* the caller's boundary Set after a call of fn *)
boundarySetAfter(fn, boundarySet) == boundarySet

InitFrame ==
    /\ op = "init"
    /\ points \in SeqsUpTo(ReducePts, MaxFrameN)
    /\ method \in Methods
    /\ pct \in {50, 100}
    /\ bnd \in IndexSets(Len(points)) \cup {NullSet}
    /\ out = <<>> /\ prev = <<>> /\ calls = 0
    /\ mode = "2d" /\ hull = <<>>
    /\ inverted = <<>> /\ restored = <<>>
    /\ dec = NoArg /\ text = <<>> /\ parsed = <<>>
    /\ fileLines = <<>> /\ drawn = NoDraws
    /\ RendererStart /\ ChunkerIdle /\ IpcIdle /\ LodStart

(* one call of a core function on the caller's points and boundary Set *)
Call ==
    /\ calls < MaxCalls
    /\ \E fn \in CoreFunctions :
          /\ op' = fn
          /\ hull' = IF fn = "identifyBoundaryPoints"
                     THEN identifyBoundaryPoints(points) ELSE hull
          /\ \E draws \in Draws(points,
                                 IF fn = "reducePointCloud" THEN method
                                 ELSE IF fn = "zGradientDownsampling" THEN "zgradient"
                                 ELSE "voxel", pct, bnd) :
                out' = CASE fn = "voxelDownsampling" -> voxelDownsampling(points, pct, bnd)
                         [] fn = "zGradientDownsampling" ->
                                zGradientDownsampling(points, pct, bnd, draws)
                         [] fn = "reducePointCloud" ->
                                reducePointCloud(points, method, pct, bnd, draws)
                         [] OTHER -> out
          /\ inverted' = IF fn = "invertZValues" THEN invertZValues(points) ELSE inverted
          /\ text' = IF fn = "exportToXYZ" THEN exportToXYZ(points, dec) ELSE text
          /\ points' = pointsAfter(fn, points)
          /\ bnd' = IF fn \in {"voxelDownsampling", "zGradientDownsampling",
                                "reducePointCloud"}
                    THEN boundarySetAfter(fn, bnd) ELSE bnd
    /\ calls' = calls + 1
    /\ UNCHANGED <<mode, method, pct, prev, restored, dec, parsed>>
    /\ UNCHANGED <<fileLines, drawn, rendererVars, chunkerVars, ipcVars, lodVars>>

NextFrame == Call

SpecFrame == InitFrame /\ [][NextFrame]_vars

(***************************************************************************)
(* Chunk requests over IPC: electronAPI.chunkFile of preload.cjs and the   *)
(* 'chunk:start' handler of the main process (part_007).  A request is     *)
(* named by its position in promises.  The handler sends 'chunk:done' or   *)
(* 'chunk:error' to the renderer and then settles the invoke; the renderer *)
(* gets the messages of the main process in the order they were sent.      *)
(***************************************************************************)
ChunkInputs == {"cloud.xyz", "missing.xyz"}

(* chunkFileNode throws when the input file does not exist *)
chunkSucceeds(inputPath) == inputPath = "cloud.xyz"

(* resolve / reject called on the promises ids: a settled promise stays *)
settle(ps, ids, status, id) ==
    [k \in 1..Len(ps) |->
        IF k \in ids /\ ps[k].status = "pending"
        THEN [ps[k] EXCEPT !.status = status, !.from = id]
        ELSE ps[k]]

InitIpc ==
    /\ op = "init"
    /\ IpcIdle
    /\ points = <<>> /\ mode = "2d" /\ hull = <<>>
    /\ method = "voxel" /\ pct = 100 /\ bnd = NullSet
    /\ out = <<>> /\ prev = <<>> /\ calls = 0
    /\ inverted = <<>> /\ restored = <<>>
    /\ dec = NoArg /\ text = <<>> /\ parsed = <<>>
    /\ fileLines = <<>> /\ drawn = NoDraws
    /\ RendererStart /\ ChunkerIdle /\ LodStart

IpcFrame ==
    UNCHANGED <<op, points, mode, hull, method, pct, bnd, out, prev, calls, inverted,
                restored, dec, text, parsed, fileLines, drawn,
                rendererVars, chunkerVars, lodVars>>

(* electronAPI.chunkFile(params): the promise, its two once-listeners and  *)
(* the invoke that starts the handler                                      *)
chunkFile ==
    /\ Len(promises) < MaxRequests
    /\ \E inputPath \in ChunkInputs :
          promises' = Append(promises,
                             [inputPath |-> inputPath, status |-> "pending", from |-> 0])
    /\ doneListeners' = Append(doneListeners, Len(promises) + 1)
    /\ errorListeners' = Append(errorListeners, Len(promises) + 1)
    /\ running' = running \cup {Len(promises) + 1}
    /\ UNCHANGED channel
    /\ IpcFrame

(* the handler of one request after its await: chunk:done and the return,  *)
(* or chunk:error and the throw                                            *)
chunkStartHandler ==
    /\ \E id \in running :
          /\ running' = running \ {id}
          /\ channel' = channel \o
                IF chunkSucceeds(promises[id].inputPath)
                THEN << [name |-> "chunk:done", id |-> id],
                        [name |-> "invoke:resolved", id |-> id] >>
                ELSE << [name |-> "chunk:error", id |-> id],
                        [name |-> "invoke:rejected", id |-> id] >>
    /\ UNCHANGED <<promises, doneListeners, errorListeners>>
    /\ IpcFrame

(* 'chunk:done' reaches the renderer: every once-listener on the channel   *)
(* runs and is removed                                                     *)
onChunkDone ==
    /\ channel # <<>> /\ Head(channel).name = "chunk:done"
    /\ promises' = settle(promises, Range(doneListeners), "resolved", Head(channel).id)
    /\ doneListeners' = <<>>
    /\ channel' = Tail(channel)
    /\ UNCHANGED <<errorListeners, running>>
    /\ IpcFrame

(* 'chunk:error' reaches the renderer *)
onChunkError ==
    /\ channel # <<>> /\ Head(channel).name = "chunk:error"
    /\ promises' = settle(promises, Range(errorListeners), "rejected", Head(channel).id)
    /\ errorListeners' = <<>>
    /\ channel' = Tail(channel)
    /\ UNCHANGED <<doneListeners, running>>
    /\ IpcFrame

(* the invoke of a request resolves: nothing is attached to it *)
invokeResolved ==
    /\ channel # <<>> /\ Head(channel).name = "invoke:resolved"
    /\ channel' = Tail(channel)
    /\ UNCHANGED <<promises, doneListeners, errorListeners, running>>
    /\ IpcFrame

(* the invoke of a request rejects: .catch(reject) of its own promise *)
invokeRejected ==
    /\ channel # <<>> /\ Head(channel).name = "invoke:rejected"
    /\ promises' = settle(promises, {Head(channel).id}, "rejected", Head(channel).id)
    /\ channel' = Tail(channel)
    /\ UNCHANGED <<doneListeners, errorListeners, running>>
    /\ IpcFrame

NextIpc ==
    \/ chunkFile
    \/ chunkStartHandler
    \/ onChunkDone
    \/ onChunkError
    \/ invokeResolved
    \/ invokeRejected

SpecIpc == InitIpc /\ [][NextIpc]_vars

(***************************************************************************)
(* The LOD renderer (part_009): file load, animation frames and the        *)
(* smooth-surface button.  The scene holds object names: CloudObject for   *)
(* the THREE.Points the variable cloud refers to, k >= 1 for the k-th      *)
(* mesh generateSurface returned.  The camera distance read by updateLOD   *)
(* is whatever the orbit controls left, so each call may pick any level.   *)
(***************************************************************************)
CloudObject == 0

(* lodPoints[level] of an empty lodPoints *)
UndefinedPoints == <<Point(NaN, NaN, NaN, NaN, NaN, NaN)>>

(* points.filter((_, i) => i % n === 0) *)
everyNth(pts, n) ==
    LET at == SelectSeq([k \in 1..Len(pts) |-> k], LAMBDA k : (k - 1) % n = 0)
    IN [k \in 1..Len(at) |-> pts[at[k]]]

createLODs(pts) == <<pts, everyNth(pts, 10), everyNth(pts, 10 * 10)>>

(* updateLOD() at the given level: the level is picked, cloud and surface  *)
(* are removed from the scene, and a new cloud is built and added unless   *)
(* currentLODPoints.forEach throws on undefined                            *)
updateLOD(lods, level, oldCloud, oldSurface, oldScene) ==
    LET current == IF Len(lods) = 0 THEN UndefinedPoints ELSE lods[level + 1]
        emptied == (oldScene \ (IF oldCloud # Null THEN {oldCloud} ELSE {}))
                       \ (IF oldSurface # Null THEN {oldSurface} ELSE {})
    IN IF current = UndefinedPoints
       THEN [currentLODPoints |-> current, cloud |-> oldCloud, scene |-> emptied]
       ELSE [currentLODPoints |-> current, cloud |-> CloudObject,
             scene |-> emptied \cup {CloudObject}]

InitLod ==
    /\ op = "init"
    /\ LodStart
    /\ points = <<>> /\ mode = "2d" /\ hull = <<>>
    /\ method = "voxel" /\ pct = 100 /\ bnd = NullSet
    /\ out = <<>> /\ prev = <<>> /\ calls = 0
    /\ inverted = <<>> /\ restored = <<>>
    /\ dec = NoArg /\ text = <<>> /\ parsed = <<>>
    /\ fileLines = <<>> /\ drawn = NoDraws
    /\ RendererStart /\ ChunkerIdle /\ IpcIdle

LodFrame ==
    UNCHANGED <<op, points, mode, hull, method, pct, bnd, out, prev, calls, inverted,
                restored, dec, text, parsed, fileLines, drawn,
                rendererVars, chunkerVars, ipcVars>>

(* loadXYZ(e) of the LOD renderer: starts a FileReader *)
lodLoadXYZ ==
    /\ Len(lodReader) < MaxReads
    /\ \E file \in RendererFiles : lodReader' = Append(lodReader, file)
    /\ UNCHANGED <<lodPoints, currentLODPoints, lodCloud, surface, scene, meshes>>
    /\ LodFrame

(* reader.onload: createLODs(points); updateLOD() *)
lodReaderOnload ==
    /\ \E i \in 1..Len(lodReader) :
          /\ lodPoints' = createLODs(parseXYZ(readAsText(lodReader[i])))
          /\ lodReader' = RemoveAt(lodReader, i)
    /\ \E level \in 0..2 :
          LET u == updateLOD(lodPoints', level, lodCloud, surface, scene)
          IN /\ currentLODPoints' = u.currentLODPoints
             /\ lodCloud' = u.cloud
             /\ scene' = u.scene
    /\ UNCHANGED <<surface, meshes>>
    /\ LodFrame

(* animate(): one animation frame *)
animate ==
    /\ \E level \in 0..2 :
          LET u == updateLOD(lodPoints, level, lodCloud, surface, scene)
          IN /\ currentLODPoints' = u.currentLODPoints
             /\ lodCloud' = u.cloud
             /\ scene' = u.scene
    /\ UNCHANGED <<lodPoints, surface, meshes, lodReader>>
    /\ LodFrame

(* toggleSmooth() with a surface: it is removed and forgotten *)
toggleSmoothOff ==
    /\ surface # Null
    /\ scene' = scene \ {surface}
    /\ surface' = Null
    /\ UNCHANGED <<lodPoints, currentLODPoints, lodCloud, meshes, lodReader>>
    /\ LodFrame

(* toggleSmooth() without a surface: generateSurface returns null for no   *)
(* points, and a new mesh or null (no geometry could be built) otherwise;  *)
(* scene.add(null) adds nothing                                            *)
toggleSmoothOn ==
    /\ surface = Null
    /\ \E made \in BOOLEAN :
          IF made /\ currentLODPoints # UndefinedPoints /\ Len(currentLODPoints) > 0
             /\ meshes < MaxSurfaces
          THEN /\ surface' = meshes + 1
               /\ scene' = scene \cup {meshes + 1}
               /\ meshes' = meshes + 1
          ELSE UNCHANGED <<surface, scene, meshes>>
    /\ UNCHANGED <<lodPoints, currentLODPoints, lodCloud, lodReader>>
    /\ LodFrame

NextLod ==
    \/ lodLoadXYZ
    \/ lodReaderOnload
    \/ animate
    \/ toggleSmoothOff
    \/ toggleSmoothOn

SpecLod == InitLod /\ [][NextLod]_vars


(***************************************************************************)
(* Geometry used to state the detector's properties, independent of the    *)
(* monotone chain: a position is on the hull boundary when some line       *)
(* through it and another position has the whole cloud on one side.        *)
(***************************************************************************)
SamePos(a, b) == a.x = b.x /\ a.y = b.y

(* twice the signed area of the triangle o, a, b *)
Orient(o, a, b) ==
    (o.x * a.y - a.x * o.y) + (a.x * b.y - b.x * a.y) + (b.x * o.y - o.x * b.y)

OnHullBoundary(q, pts) ==
    \/ \A i \in 1..Len(pts) : SamePos(pts[i], q)
    \/ \E i \in 1..Len(pts) :
          /\ ~SamePos(pts[i], q)
          /\ \/ \A k \in 1..Len(pts) : Orient(q, pts[i], pts[k]) >= 0
             \/ \A k \in 1..Len(pts) : Orient(q, pts[i], pts[k]) <= 0

StrictlyBetween(q, a, b) ==
    /\ ~SamePos(a, q) /\ ~SamePos(b, q)
    /\ Orient(a, b, q) = 0
    /\ (a.x - q.x) * (b.x - q.x) + (a.y - q.y) * (b.y - q.y) < 0

IsHullVertex(q, pts) ==
    /\ OnHullBoundary(q, pts)
    /\ ~\E i, j \in 1..Len(pts) : StrictlyBetween(q, pts[i], pts[j])

StrictlyInsideHull(q, pts) == ~OnHullBoundary(q, pts)

DistinctPositions(pts) ==
    \A i, j \in 1..Len(pts) : i # j => ~SamePos(pts[i], pts[j])

ValidIndex(i, pts) == i \in 0..(Len(pts) - 1)

(* C3: identifyBoundaryPoints returns unique integers, no more of them     *)
(* than there are points, each an index i with 0 <= i < points.length      *)
C3_IndicesUniqueInRange ==
    op = "identify" =>
        /\ Len(hull) <= Len(points)
        /\ \A k \in 1..Len(hull) : ValidIndex(hull[k], points)
        /\ \A j, k \in 1..Len(hull) : j # k => hull[j] # hull[k]

C3_Witness ==
    /\ op = "identify"
    /\ Len(points) = 4
    /\ Len(hull) = 3
    /\ (Len(points) - 1) \in Range(hull)

C5_ConvexPolygonRoundTrip ==
    ( /\ op = "identify" /\ mode = "2d"
      /\ Len(points) >= 3
      /\ DistinctPositions(points)
      /\ \A i \in 1..Len(points) : IsHullVertex(points[i], points) ) =>
        Range(hull) = 0..(Len(points) - 1)

C5_Witness ==
    /\ op = "identify" /\ mode = "2d"
    /\ Len(points) = 4
    /\ DistinctPositions(points)
    /\ \A i \in 1..Len(points) : IsHullVertex(points[i], points)
    /\ compareXY(points[1], points[2]) > 0
    /\ Range(hull) = 0..3

(* C6: with the 3D mode selected identifyBoundaryPoints returns the        *)
(* vertices of the 3D hull: every point that alone is extreme in one of    *)
(* the eight diagonal directions is returned, and for the unit cube with   *)
(* its centre exactly the 8 corner indices are                             *)
DiagonalScore(p, s) == s[1] * p.x + s[2] * p.y + s[3] * p.z

ExtremeIn3D(i, pts) ==
    \E s \in {<<a, b, c>> : a \in {-1, 1}, b \in {-1, 1}, c \in {-1, 1}} :
        \A k \in 1..Len(pts) :
            k # i => DiagonalScore(pts[k], s) < DiagonalScore(pts[i], s)

C6_VolumetricMode ==
    (op = "identify" /\ mode = "3d") =>
        /\ \A i \in 1..Len(points) :
              ExtremeIn3D(i, points) => (i - 1) \in Range(hull)
        /\ points = UnitCubeCentre => Range(hull) = 0..7

(* C10: detection on an empty list returns the empty set, and on a list    *)
(* of 1 or 2 points the set of all indices                                 *)
C10_DegenerateInputs ==
    (op = "identify" /\ Len(points) < 3) =>
        /\ Len(hull) = Len(points)
        /\ Range(hull) = 0..(Len(points) - 1)

C10_Witness ==
    /\ op = "identify"
    /\ Len(points) = 2
    /\ SamePos(points[1], points[2])
    /\ hull = <<0, 1>>

(* C1: for every cloud, boundary-index set of valid indices, method and    *)
(* percentage, the list returned by reducePointCloud contains points[i]    *)
(* unmodified for every i in the boundary-index set                        *)
C1_BoundaryPreserved ==
    op = "reduce" =>
        \A i \in Range(orEmptySet(bnd)) :
            \E k \in 1..Len(out) : out[k] = points[i + 1]

(* C2: with targetPercentage >= 100 reducePointCloud returns the input     *)
(* points in the input order, for both methods and any boundary set        *)
C2_IdentityAtFullPercentage ==
    (op = "reduce" /\ pct >= 100) => out = points

C2_Witness ==
    /\ op = "reduce"
    /\ pct = 100
    /\ method = "voxel"
    /\ Len(points) = 3
    /\ points[1] # points[2]
    /\ bnd = <<2>>
    /\ out = points

ReturnsBeforeDraws ==
    \/ pct >= 100
    \/ Len(points) = 0
    \/ interiorIndicesOf(Len(points), orEmptySet(bnd)) = <<>>
    \/ Len(orEmptySet(bnd)) >= totalTargetOf(Len(points), pct)

C7_InvertSelfInverse ==
    /\ op \in {"invert", "invertAgain"} =>
          /\ Len(inverted) = Len(points)
          /\ \A k \in 1..Len(inverted) :
                /\ inverted[k].z = -points[k].z
                /\ inverted[k].x = points[k].x /\ inverted[k].y = points[k].y
                /\ inverted[k].r = points[k].r /\ inverted[k].g = points[k].g
                /\ inverted[k].b = points[k].b
    /\ op = "invertAgain" => restored = points

C7_Witness ==
    /\ op = "invertAgain"
    /\ Len(points) = 3
    /\ points[1].z > 0 /\ points[2].z < 0 /\ points[3].r # Null
    /\ inverted[1].z < 0
    /\ restored = points

(* C8: for points that are each fully coloured or uncoloured, exportToXYZ  *)
(* writes one line per point, three coordinates with d decimals (6 when d  *)
(* is omitted) followed by the three colour integers exactly when the      *)
(* point has colour; parseXYZ of the text returns as many points in the    *)
(* same order, coordinates within half a unit of the d-th decimal of the   *)
(* originals and colour channels equal to the originals                    *)
ColorWhole(q) == (q.r = Null) = (q.g = Null) /\ (q.g = Null) = (q.b = Null)

EffectiveDecimals == IF dec = NoArg THEN 6 ELSE dec

DecimalsOf(token) ==
    LET dots == {i \in 1..Len(token) : token[i] = "."}
    IN IF dots = {} THEN 0 ELSE Len(token) - (CHOOSE i \in dots : TRUE)

(* |a - b| <= 0.5 * 10^-d for a, b in hundredths *)
WithinRounding(a, b, d) ==
    IF d >= 2 THEN a = b ELSE 2 * Abs(a - b) * Pow10(d) <= Unit

LinesOfText == SplitAt(text, {"\n"}, 1, <<>>)

C8_ExportParseRoundTrip ==
    (op \in {"export", "parse"} /\ \A k \in 1..Len(points) : ColorWhole(points[k])) =>
        /\ Cardinality({i \in 1..Len(text) : text[i] = "\n"}) = Len(points)
        /\ text # <<>> => text[Len(text)] = "\n"
        /\ Len(LinesOfText) = Len(points)
        /\ \A k \in 1..Len(LinesOfText) :
              LET fields == SplitAt(LinesOfText[k], {" "}, 1, <<>>)
              IN /\ Len(fields) = IF points[k].r # Null THEN 6 ELSE 3
                 /\ \A f \in 1..3 : DecimalsOf(fields[f]) = EffectiveDecimals
                 /\ \A f \in 4..Len(fields) : DecimalsOf(fields[f]) = 0
        /\ op = "parse" =>
              /\ Len(parsed) = Len(points)
              /\ \A k \in 1..Len(parsed) :
                    /\ WithinRounding(parsed[k].x, points[k].x, EffectiveDecimals)
                    /\ WithinRounding(parsed[k].y, points[k].y, EffectiveDecimals)
                    /\ WithinRounding(parsed[k].z, points[k].z, EffectiveDecimals)
                    /\ parsed[k].r = points[k].r
                    /\ parsed[k].g = points[k].g
                    /\ parsed[k].b = points[k].b

C8_Witness ==
    /\ op = "parse"
    /\ dec = 1
    /\ Len(points) = 2
    /\ \A k \in 1..Len(points) : ColorWhole(points[k])
    /\ points[1].r = Null /\ points[2].r = 0
    /\ Len(parsed) = 2
    /\ parsed[2].z # points[2].z
    /\ parsed[2].b = 0

(* C11: parseXYZ returns exactly one point per input line whose first     *)
(* three whitespace-separated fields are finite numbers, in line order,    *)
(* and skips every other line (comments, blank lines, fewer than 3         *)
(* numeric fields); every parsed point has finite x, y and z               *)
PointOfLine(line) ==
    CASE line = PlainLine -> <<Point(0, 0, 0, Null, Null, Null)>>
      [] line = ColorLine -> <<Point(1, 1, 1, 255 * Unit, 0, 128 * Unit)>>
      [] line = FourFieldLine -> <<Point(2, 1, 0, 255 * Unit, Null, Null)>>
      [] line = FiveFieldLine -> <<Point(-1, -1, 1, 0, 10 * Unit, Null)>>
      [] OTHER -> <<>>

RECURSIVE PointsOfLines(_)
PointsOfLines(ls) ==
    IF ls = <<>> THEN <<>> ELSE PointsOfLines(Front(ls)) \o PointOfLine(ls[Len(ls)])

C11_ParserLineFilter ==
    op = "parseFile" =>
        /\ parsed = PointsOfLines(fileLines)
        /\ \A k \in 1..Len(parsed) :
              parsed[k].x # NaN /\ parsed[k].y # NaN /\ parsed[k].z # NaN

C11_Witness ==
    /\ op = "parseFile"
    /\ fileLines = <<CommentLine, SuffixLine, ColorLine>>
    /\ text[Len(text)] = " "
    /\ "\r" \in Range(text)
    /\ parsed = <<Point(1, 1, 1, 255 * Unit, 0, 128 * Unit)>>

(* C12: every point produced by parseXYZ, and every point in the output   *)
(* of voxelDownsampling, zGradientDownsampling and invertZValues applied   *)
(* to parsed points, has r, g and b all non-null or all null               *)
C12_NoPartialColor ==
    /\ op = "parseFile" => \A k \in 1..Len(parsed) : ColorWhole(parsed[k])
    /\ op = "reduceParsed" => \A k \in 1..Len(out) : ColorWhole(out[k])
    /\ op = "invertParsed" => \A k \in 1..Len(inverted) : ColorWhole(inverted[k])

(* C13: after a file load has completed and every deferred callback has   *)
(* run, boundaryIndices equals identifyBoundaryPoints(originalPoints) for  *)
(* the loaded cloud, whether or not the identify button was pressed        *)
Quiescent == timers = <<>> /\ reader = <<>>

C13_AutomaticDetection ==
    (Quiescent /\ Len(originalPoints) > 0) =>
        boundaryIndices = identifyBoundaryPoints(originalPoints)

(* C14: when chunkFileNode completes, metadata.totalPoints is the sum of  *)
(* chunk.points over metadata.chunks and the number of valid point lines   *)
(* of the input (lines the chunker takes for points: not a comment, three  *)
(* leading fields that start with a number), metadata.totalChunks is       *)
(* metadata.chunks.length, every chunk has points >= 1, and the chunk      *)
(* filenames are pairwise distinct                                         *)
ChunkerPointLines ==
    SelectSeq(fileLines, LAMBDA l : l \in {PlainLine, ColorLine, FourFieldLine,
                                           FiveFieldLine, SuffixLine})

RECURSIVE ChunkFileLines(_)
ChunkFileLines(files) ==
    IF files = <<>> THEN <<>>
    ELSE ChunkFileLines(Front(files)) \o SplitAt(files[Len(files)].content, {"\n"}, 1, <<>>)

C16_SharedPositions ==
    (op = "identify" /\ mode = "2d" /\ Len(points) >= 3) =>
        \A i \in 1..Len(points) :
            IsHullVertex(points[i], points) => (i - 1) \in Range(hull)

(* C17: in 2D mode a point strictly between two other input positions is   *)
(* never in the result, and for at least 3 points that are all collinear   *)
(* in (x,y) the result is the indices of the two extreme endpoints         *)
AllCollinear(pts) ==
    \A i, j, k \in 1..Len(pts) : Orient(pts[i], pts[j], pts[k]) = 0

ExtremeOfLine(q, pts) ==
    \/ \A k \in 1..Len(pts) : compareXY(q, pts[k]) <= 0
    \/ \A k \in 1..Len(pts) : compareXY(q, pts[k]) >= 0

C17_CollinearPolicy ==
    (op = "identify" /\ mode = "2d" /\ Len(points) >= 3) =>
        /\ \A i \in 1..Len(points) :
              (\E j, k \in 1..Len(points) : StrictlyBetween(points[i], points[j], points[k]))
                  => (i - 1) \notin Range(hull)
        /\ AllCollinear(points) =>
              /\ Len(hull) = 2
              /\ \A k \in 1..Len(hull) : ExtremeOfLine(points[hull[k] + 1], points)
              /\ \A i \in 1..Len(points) :
                    ExtremeOfLine(points[i], points) =>
                        \E k \in 1..Len(hull) : SamePos(points[hull[k] + 1], points[i])

C17_Witness ==
    /\ op = "identify" /\ mode = "2d"
    /\ Len(points) = 4
    /\ AllCollinear(points)
    /\ Cardinality({<<points[i].x, points[i].y>> : i \in 1..4}) = 3
    /\ compareXY(points[1], points[2]) > 0
    /\ StrictlyBetween(points[3], points[1], points[2])
    /\ Len(hull) = 2
    /\ 2 \notin Range(hull)

(***************************************************************************)
(* C18.  Short-circuit on the boundary count: for either method, a         *)
(* percentage below 100 and a non-empty list, when the boundary set has    *)
(* at least totalTarget = max(1, floor(n * percentage / 100)) indices the  *)
(* output consists of exactly the boundary points, each once and           *)
(* unmodified; no interior point and no centroid is in it.                 *)
(***************************************************************************)
Occurrences(s, v) == Cardinality({k \in 1..Len(s) : s[k] = v})

SameElements(s, t) ==
    /\ Len(s) = Len(t)
    /\ \A v \in Range(s) \cup Range(t) : Occurrences(s, v) = Occurrences(t, v)

ShortCircuitCase ==
    /\ op = "reduce" /\ pct < 100 /\ Len(points) > 0
    /\ Len(orEmptySet(bnd)) >= Max2(1, (Len(points) * pct) \div 100)

C18_ShortCircuit ==
    ShortCircuitCase =>
        /\ SameElements(out, [k \in 1..Len(orEmptySet(bnd)) |-> points[bnd[k] + 1]])
        /\ Len(out) = Len(orEmptySet(bnd))

(* two of three different points are boundary points and the target is 2:  *)
(* the boundary points come back in the set's order, the third is dropped  *)
C18_Witness ==
    /\ ShortCircuitCase
    /\ method = "voxel" /\ pct = 90 /\ Len(points) = 3 /\ bnd = <<2, 0>>
    /\ \A j, k \in 1..3 : j # k => points[j] # points[k]
    /\ out = <<points[3], points[1]>>

(***************************************************************************)
(* C19.  Output size and shape of the gradient method: for a percentage    *)
(* below 100 and fewer boundary points than totalTarget, the output is     *)
(* the boundary points followed by exactly interiorTarget =                *)
(* max(1, totalTarget - |B|) interior points; each output element is an    *)
(* unmodified input point and no input index appears twice.                *)
(* C19_GradientShape is the property for every input list,                 *)
(* C19_GradientShapeNonEmpty for the non-empty ones.                       *)
(***************************************************************************)
GradientCase ==
    /\ op = "gradient" /\ pct < 100
    /\ Len(orEmptySet(bnd)) < Max2(1, (Len(points) * pct) \div 100)

InteriorTarget ==
    Max2(1, Max2(1, (Len(points) * pct) \div 100) - Len(orEmptySet(bnd)))

(* ways of picking k different indices out of S, in order *)
Picks(S, k) ==
    {f \in [1..k -> S] : \A i, j \in 1..k : i # j => f[i] # f[j]}

GradientShape ==
    LET B == orEmptySet(bnd)
        interior == (0..(Len(points) - 1)) \ Range(B)
    IN /\ Len(out) = Len(B) + InteriorTarget
       /\ \A k \in 1..Len(B) : out[k] = points[B[k] + 1]
       /\ \E f \in Picks(interior, InteriorTarget) :
             \A k \in 1..InteriorTarget : out[Len(B) + k] = points[f[k] + 1]

C19_GradientShape == GradientCase => GradientShape

C19_GradientShapeNonEmpty == (GradientCase /\ Len(points) > 0) => GradientShape

(* three different points, the second one a boundary point, target 2: the  *)
(* boundary point comes first, one of the two interior points follows      *)
C19_Witness ==
    /\ GradientCase
    /\ pct = 90 /\ Len(points) = 3 /\ bnd = <<1>>
    /\ \A j, k \in 1..3 : j # k => points[j] # points[k]
    /\ Len(out) = 2 /\ out[1] = points[2] /\ out[2] \in {points[1], points[3]}

(***************************************************************************)
(* C20.  Selection order of the gradient method: for every outcome of the  *)
(* random draws, every interior point kept in the output has a gradient    *)
(* score greater than or equal to the score of every interior point that   *)
(* was dropped, so the random tie-breaker only decides among points of     *)
(* equal score.  C20_SelectionOrder is the property for every call,        *)
(* C20_SelectionOrderApart for the calls in which any two interior scores  *)
(* are equal or at least 0.001 apart.                                      *)
(***************************************************************************)
(* the interior points with the scores of the recorded draws, as sorted *)
SortedInterior ==
    sortGradient(pointsWithGradientOf(points,
        interiorIndicesOf(Len(points), orEmptySet(bnd)), drawn))

(* a.gradient >= b.gradient *)
ScoreAtLeast(a, b) ==
    a.gradient.dz * a.gradient.dz * b.gradient.d2 >=
        b.gradient.dz * b.gradient.dz * a.gradient.d2

SelectionByScore ==
    LET nb == Len(orEmptySet(bnd))
    IN \E sorted \in {SortedInterior} :
       /\ \A k \in 1..InteriorTarget : out[nb + k] = sorted[k].point
       /\ \A i \in 1..InteriorTarget : \A j \in (InteriorTarget + 1)..Len(sorted) :
             ScoreAtLeast(sorted[i], sorted[j])

(* no two interior scores differ by less than 0.001 without being equal *)
ScoresApart ==
    \E scored \in {pointsWithGradientOf(points,
                       interiorIndicesOf(Len(points), orEmptySet(bnd)), drawn)} :
        \A i, j \in 1..Len(scored) :
            similarGradient(scored[i], scored[j]) =>
                /\ ScoreAtLeast(scored[i], scored[j])
                /\ ScoreAtLeast(scored[j], scored[i])

C20_SelectionOrder ==
    (GradientCase /\ Len(points) > 0) => SelectionByScore

C20_SelectionOrderApart ==
    (GradientCase /\ Len(points) > 0 /\ ScoresApart) => SelectionByScore

(* three interior points, one kept: the kept point has a strictly higher   *)
(* score than the next one although its tie-break value is lower, and the  *)
(* two dropped points have equal scores                                    *)
C20_Witness ==
    /\ GradientCase /\ ScoresApart
    /\ Len(points) = 3 /\ bnd = NullSet /\ pct = 50
    /\ Len(out) = 1
    /\ \E sorted \in {SortedInterior} :
          /\ out[1] = sorted[1].point
          /\ ~ScoreAtLeast(sorted[2], sorted[1])
          /\ sorted[1].random < sorted[2].random
          /\ ScoreAtLeast(sorted[3], sorted[2])

(***************************************************************************)
(* C21.  Voxel method: for a percentage below 100, fewer boundary points   *)
(* than totalTarget and an interior bounding box with volume, the interior *)
(* part of the output has exactly one point per distinct voxel key         *)
(* (floor((coord - min) / voxelSize) per axis) occupied by an interior     *)
(* point, and the position of that point is the arithmetic mean of the     *)
(* positions of the interior points of the voxel (to the resolution of     *)
(* the number model).                                                      *)
(***************************************************************************)
InteriorPoints ==
    LET idx == interiorIndicesOf(Len(points), orEmptySet(bnd))
    IN [k \in 1..Len(idx) |-> points[idx[k] + 1]]

Extent(vals) == MaxSeq(vals) - MinSeq(vals)

InteriorVolume ==
    LET ip == InteriorPoints
    IN IF ip = <<>> THEN 0
       ELSE Extent([k \in 1..Len(ip) |-> ip[k].x]) *
            Extent([k \in 1..Len(ip) |-> ip[k].y]) *
            Extent([k \in 1..Len(ip) |-> ip[k].z])

ReducesInterior ==
    /\ op = "reduce" /\ method = "voxel" /\ pct < 100 /\ Len(points) > 0
    /\ Len(orEmptySet(bnd)) < Max2(1, (Len(points) * pct) \div 100)

VoxelCase == ReducesInterior /\ InteriorVolume # 0

(* the voxel key of an interior point *)
VoxelKeyOf(q, ip) ==
    LET volume == InteriorVolume
        factor == voxelFactor(pct)
        n == Len(points)
    IN << voxelIndex(q.x - MinSeq([k \in 1..Len(ip) |-> ip[k].x]), volume, n, factor),
          voxelIndex(q.y - MinSeq([k \in 1..Len(ip) |-> ip[k].y]), volume, n, factor),
          voxelIndex(q.z - MinSeq([k \in 1..Len(ip) |-> ip[k].z]), volume, n, factor) >>

(* count * m is the sum, to the nearest representable number *)
IsMeanOf(m, sum, count) == 2 * Abs(count * m - sum) <= count

CentroidOf(q, members) ==
    /\ IsMeanOf(q.x, SumSeq([k \in 1..Len(members) |-> members[k].x]), Len(members))
    /\ IsMeanOf(q.y, SumSeq([k \in 1..Len(members) |-> members[k].y]), Len(members))
    /\ IsMeanOf(q.z, SumSeq([k \in 1..Len(members) |-> members[k].z]), Len(members))

C21_VoxelCentroids ==
    VoxelCase =>
        \E ip \in {InteriorPoints} :
        \E keys \in {[k \in 1..Len(ip) |-> VoxelKeyOf(ip[k], ip)]} :
            LET nb == Len(orEmptySet(bnd))
                occupied == Range(keys)
                members(v) == SelectSeq(ip, LAMBDA q : VoxelKeyOf(q, ip) = v)
            IN /\ Len(out) = nb + Cardinality(occupied)
               /\ \E f \in [occupied -> 1..Cardinality(occupied)] :
                     /\ \A v, w \in occupied : v # w => f[v] # f[w]
                     /\ \A v \in occupied : CentroidOf(out[nb + f[v]], members(v))

(* three different interior points of which two share a voxel: two         *)
(* centroids come back                                                     *)
C21_Witness ==
    /\ VoxelCase
    /\ Len(points) = 3 /\ bnd = NullSet /\ pct = 50
    /\ \A j, k \in 1..3 : j # k => points[j] # points[k]
    /\ Len(out) = 2
    /\ \E k \in 1..2 : out[k] \notin Range(points)

(***************************************************************************)
(* C22.  Voxel colour rule: the centroid emitted for a voxel has non-null  *)
(* colour only if every member point of the voxel has non-null colour,     *)
(* and then each channel is the members' mean rounded to the nearest       *)
(* integer, within 0..255; if any member has null colour the centroid's    *)
(* r, g and b are all null.                                                *)
(***************************************************************************)
HasColor(q) == q.r # Null /\ q.g # Null /\ q.b # Null

ChannelRule(c, vals) ==
    /\ c = MathRoundDiv(SumSeq(vals), Len(vals))
    /\ c >= 0 /\ c <= 255 * Unit

ColorRule(q, members) ==
    IF \A k \in 1..Len(members) : HasColor(members[k])
    THEN /\ ChannelRule(q.r, [k \in 1..Len(members) |-> members[k].r])
         /\ ChannelRule(q.g, [k \in 1..Len(members) |-> members[k].g])
         /\ ChannelRule(q.b, [k \in 1..Len(members) |-> members[k].b])
    ELSE q.r = Null /\ q.g = Null /\ q.b = Null

C22_VoxelColorRule ==
    VoxelCase =>
        \E ip \in {InteriorPoints} :
        \E keys \in {[k \in 1..Len(ip) |-> VoxelKeyOf(ip[k], ip)]} :
            LET nb == Len(orEmptySet(bnd))
                occupied == Range(keys)
                members(v) == SelectSeq(ip, LAMBDA q : VoxelKeyOf(q, ip) = v)
            IN \E f \in [occupied -> 1..Cardinality(occupied)] :
                  /\ \A v, w \in occupied : v # w => f[v] # f[w]
                  /\ \A v \in occupied :
                        /\ CentroidOf(out[nb + f[v]], members(v))
                        /\ ColorRule(out[nb + f[v]], members(v))

(***************************************************************************)
(* C23.  Voxel degenerate fallback: for a percentage below 100 and fewer   *)
(* boundary points than totalTarget, when the bounding box of the interior *)
(* points has zero extent in at least one axis, the output is the boundary *)
(* points followed by the first interiorTarget interior points in input    *)
(* order, unmodified.                                                      *)
(***************************************************************************)
C23_DegenerateFallback ==
    (ReducesInterior /\ InteriorVolume = 0) =>
        \E ip \in {InteriorPoints} :
            out = [k \in 1..Len(orEmptySet(bnd)) |-> points[bnd[k] + 1]]
                  \o SubSeq(ip, 1, Min2(InteriorTarget, Len(ip)))

(***************************************************************************)
(* C24.  Reduction is always derived from the original cloud: in the       *)
(* renderer originalPoints is changed only by a file load, and once no     *)
(* load and no deferred callback is pending, currentPoints is the          *)
(* reduction (then the optional inversion) of originalPoints under the     *)
(* current method, percentage and invert setting, for some outcome of the  *)
(* random draws and with the boundary set absent or detected, whatever     *)
(* the settings were before.                                               *)
(***************************************************************************)
Processed(orig, m, p, inv, b, draws) ==
    LET reduced == IF m # "none" THEN reducePointCloud(orig, m, p, b, draws) ELSE orig
    IN IF inv THEN invertZValues(reduced) ELSE reduced

DerivedWith(b) ==
    \E draws \in Draws(originalPoints, reductionMethod, reductionPercent, b) :
        currentPoints = Processed(originalPoints, reductionMethod, reductionPercent,
                                  invertZ, b, draws)

C24_DerivedFromOriginal ==
    Quiescent =>
        \/ DerivedWith(NullSet)
        \/ DerivedWith(identifyBoundaryPoints(originalPoints))

(***************************************************************************)
(* C25.  Reduction follows the boundary set: with the voxel method         *)
(* selected and a cloud loaded, in every state with no load and no         *)
(* deferred callback pending, currentPoints is the reduction (then the     *)
(* optional inversion) of originalPoints under the current percentage and  *)
(* the current boundaryIndices.                                            *)
(***************************************************************************)
C25_FollowsBoundarySet ==
    (Quiescent /\ reductionMethod = "voxel" /\ Len(originalPoints) > 0) =>
        currentPoints = Processed(originalPoints, "voxel", reductionPercent,
                                  invertZ, boundaryIndices, NoDraws)

(***************************************************************************)
(* C28.  Boundary set never stale: in every reachable state of the         *)
(* renderer, under any interleaving of load completions, identify clicks,  *)
(* setting changes and deferred callbacks, boundaryIndices is null or      *)
(* equals identifyBoundaryPoints of the current originalPoints, so every   *)
(* index in it is below originalPoints.length and the boundary cloud a     *)
(* callback builds shows points of the current cloud.                      *)
(***************************************************************************)
C28_BoundaryNeverStale ==
    \/ boundaryIndices = NullSet
    \/ /\ boundaryIndices = identifyBoundaryPoints(originalPoints)
       /\ \A k \in 1..Len(boundaryIndices) :
             boundaryIndices[k] >= 0 /\ boundaryIndices[k] < Len(originalPoints)

(* a detected boundary set while a callback and a further load are pending *)
C28_Witness ==
    /\ boundaryIndices # NullSet /\ Len(boundaryIndices) = 2
    /\ boundaryIndices = identifyBoundaryPoints(originalPoints)
    /\ timers # <<>> /\ reader # <<>>

C29_Pairing ==
    \A k \in 1..Len(promises) :
        /\ promises[k].status = "resolved" =>
              promises[k].from = k /\ chunkSucceeds(promises[k].inputPath)
        /\ promises[k].status = "rejected" =>
              promises[k].from = k /\ ~chunkSucceeds(promises[k].inputPath)

(***************************************************************************)
(* C30.  Smooth surface toggle: in the LOD renderer, after a click on      *)
(* "Show Smooth Surface" for which generateSurface returned a mesh, the    *)
(* mesh stays in the scene across every animation frame until the button   *)
(* is clicked again: in every state the variable surface is non-null if    *)
(* and only if a surface mesh is in the scene, and that mesh is the one    *)
(* surface refers to.                                                      *)
(***************************************************************************)
C30_SurfaceToggle ==
    {m \in scene : m # CloudObject} = (IF surface = Null THEN {} ELSE {surface})

====
